---- MODULE Spec2Model ----
(***************************************************************************)
(* Model of the lead-finder pipeline of CRM123: the search provider        *)
(* adapter (search_web), the result filter/dedup helpers, the tiered query *)
(* planners (find_agencies / find_people), the company-to-people fan-out    *)
(* and the orchestrators (backend run_search_logic + search_endpoint, and   *)
(* the Streamlit run_search).                                               *)
(*                                                                         *)
(* Python strings are modelled as sequences of tokens.  A token is a       *)
(* maximal piece of text the code never looks inside: a word, a host name, *)
(* or one of the characters the code splits or matches on ("/", "?", "-",  *)
(* "|", " ", the double quote).  Substring tests become contiguous         *)
(* sub-sequence tests, split/strip/replace act on whole tokens.            *)
(***************************************************************************)
EXTENDS Integers, Sequences, FiniteSets, TLC

\* Python's None, and the marker of a call that raised.
NoneVal == "None"
Raised == "raised"

(***************************************************************************)
(* String helpers                                                          *)
(***************************************************************************)

\* s[i:i+len(pat)] == pat
StartsAt(pat, s, i) ==
    /\ i + Len(pat) - 1 <= Len(s)
    /\ \A k \in 1..Len(pat) : s[i + k - 1] = pat[k]

\* Python `pat in s`, for a non-empty pat.
Contains(pat, s) == \E i \in 1..Len(s) : StartsAt(pat, s, i)

\* str.lower(), token by token; only these tokens of the model hold
\* upper-case letters that matter to a caller of lower().
LowerTok(t) ==
    CASE t = "LinkedIn.com" -> "linkedin.com"
      [] t = "Company" -> "company"
      [] t = "In" -> "in"
      [] t = "Gamma" -> "gamma"
      [] OTHER -> t

Lower(s) == [i \in 1..Len(s) |-> LowerTok(s[i])]

\* str.title() of one word.
TitleTok(t) ==
    CASE t = "acme" -> "Acme"
      [] t = "beta" -> "Beta"
      [] t = "labs" -> "Labs"
      [] t = "gamma" -> "Gamma"
      [] t = "delta" -> "Delta"
      [] t = "x" -> "X"
      [] OTHER -> t

\* str.lstrip() / str.rstrip() / str.strip(): whitespace tokens at the ends.
RECURSIVE LStrip(_)
LStrip(s) == IF s # <<>> /\ Head(s) = " " THEN LStrip(Tail(s)) ELSE s

RECURSIVE RStrip(_)
RStrip(s) ==
    IF s # <<>> /\ s[Len(s)] = " " THEN RStrip(SubSeq(s, 1, Len(s) - 1)) ELSE s

Strip(s) == LStrip(RStrip(s))

\* str.rstrip("/")
RECURSIVE RStripSlash(_)
RStripSlash(s) ==
    IF s # <<>> /\ s[Len(s)] = "/"
    THEN RStripSlash(SubSeq(s, 1, Len(s) - 1))
    ELSE s

\* s.split(sep, 1)[0]: everything before the first sep (all of s without one).
BeforeFirst(sep, s) ==
    IF \E i \in 1..Len(s) : s[i] = sep
    THEN LET i == CHOOSE j \in 1..Len(s) :
                      s[j] = sep /\ \A k \in 1..(j - 1) : s[k] # sep
         IN  SubSeq(s, 1, i - 1)
    ELSE s

\* len() of a string: the characters of its tokens.
RECURSIVE CharLen(_)
CharLen(s) == IF s = <<>> THEN 0 ELSE Len(Head(s)) + CharLen(Tail(s))

\* sep.join(words)
RECURSIVE Join(_, _)
Join(sep, words) ==
    IF words = <<>> THEN <<>>
    ELSE IF Len(words) = 1 THEN <<Head(words)>>
    ELSE <<Head(words), sep>> \o Join(sep, Tail(words))

\* seq[:k]
Take(s, k) == SubSeq(s, 1, IF Len(s) < k THEN Len(s) ELSE k)

(***************************************************************************)
(* Result filter / dedup (services.py 136-171, app.py 334-375)             *)
(***************************************************************************)

SearchResult(title, url, snippet) ==
    [title |-> title, url |-> url, snippet |-> snippet, company |-> <<>>]

CompanyMarker == <<"linkedin.com", "/", "company", "/">>
ProfileMarker == <<"linkedin.com", "/", "in", "/">>
FallbackMarker == <<"linkedin.com", "/", "search", "/", "results", "/">>

is_linkedin_company(url) == Contains(CompanyMarker, Lower(url))

is_linkedin_profile(url) == Contains(ProfileMarker, Lower(url))

\* re.search(r"linkedin\.com/company/([^/?]+)", url): the leftmost place where
\* the (case-sensitive) marker is followed by a token that is neither "/" nor
\* "?"; the group runs up to the next "/" or "?".
SlugStarts(url) ==
    {i \in 1..Len(url) :
        /\ StartsAt(CompanyMarker, url, i)
        /\ i + 4 <= Len(url)
        /\ url[i + 4] \notin {"/", "?"}}

RECURSIVE SlugFrom(_, _)
SlugFrom(url, j) ==
    IF j > Len(url) \/ url[j] \in {"/", "?"} THEN <<>>
    ELSE <<url[j]>> \o SlugFrom(url, j + 1)

\* .replace("-", " ").title()
SlugName(slug) ==
    [i \in 1..Len(slug) |-> IF slug[i] = "-" THEN " " ELSE TitleTok(slug[i])]

_company_from_url(url) ==
    IF SlugStarts(url) = {} THEN <<>>
    ELSE LET i == CHOOSE j \in SlugStarts(url) : \A k \in SlugStarts(url) : j <= k
         IN  SlugName(SlugFrom(url, i + 4))

\* key = result.url.split("?")[0].rstrip("/")
url_key_keepslash(url) == BeforeFirst("?", url)

url_key(url) == RStripSlash(BeforeFirst("?", url))

\* The pass that keeps every entry.
dedupe_keep_all(items, seen, output) == output \o items

RECURSIVE dedupe_loop(_, _, _)
dedupe_loop(items, seen, output) ==
    IF items = <<>> THEN output
    ELSE LET result == Head(items)
             key == url_key(result.url)
         IN  IF key \notin seen
             THEN dedupe_loop(Tail(items), seen \cup {key}, Append(output, result))
             ELSE dedupe_loop(Tail(items), seen, output)

\* The loop run over items[:-1] only.
dedupe_by_url_droplast(items) ==
    dedupe_loop(SubSeq(items, 1, Len(items) - 1), {}, <<>>)

dedupe_by_url(items) == dedupe_loop(items, {}, <<>>)

\* The separators with the hyphen tried first.
SeparatorsHyphenFirst == <<"-", "|", "MIDDOT", "EMDASH">>

\* ("|", middle dot, em dash, "-"); the two non-ASCII characters are named.
Separators == <<"|", "MIDDOT", "EMDASH", "-">>

RECURSIVE parse_agency_name_from(_, _)
parse_agency_name_from(seps, title) ==
    IF seps = <<>> THEN Strip(title)
    ELSE IF \E i \in 1..Len(title) : title[i] = Head(seps)
         THEN LET left == Strip(BeforeFirst(Head(seps), title))
              IN  IF left # <<>> THEN left ELSE Strip(title)
         ELSE parse_agency_name_from(Tail(seps), title)

parse_agency_name(title) == parse_agency_name_from(Separators, title)

(***************************************************************************)
(* Search provider adapter (services.py 173-232, app.py 378-406)           *)
(***************************************************************************)

BingRedirect == <<"bing.com", "/", "aclick">>
DdgRedirect == <<"duckduckgo.com", "/", "l", "/">>

\* unquote() of one percent-encoded query value.
Unquote(v) ==
    CASE v = "https%3A%2F%2Flinkedin.com%2Fin%2Fjane"
           -> <<"https://", "linkedin.com", "/", "in", "/", "jane">>
      [] v = "https%3A%2F%2Flinkedin.com%2Fcompany%2Fdelta"
           -> <<"https://", "linkedin.com", "/", "company", "/", "delta">>
      [] OTHER -> <<v>>

\* urlparse(raw).query: what follows the first "?".
QueryPart(raw) ==
    IF \E i \in 1..Len(raw) : raw[i] = "?"
    THEN SubSeq(raw, Len(BeforeFirst("?", raw)) + 2, Len(raw))
    ELSE <<>>

\* The places of parse_qs(query)[key]: the key followed by a non-blank value.
ParamPlaces(q, key) ==
    {i \in 1..(Len(q) - 1) : q[i] = key /\ q[i + 1] # "&"}

RECURSIVE redirect_target(_, _, _)
redirect_target(raw, q, keys) ==
    IF keys = <<>> THEN raw
    ELSE IF ParamPlaces(q, Head(keys)) # {}
         THEN LET i == CHOOSE j \in ParamPlaces(q, Head(keys)) :
                           \A k \in ParamPlaces(q, Head(keys)) : j <= k
              IN  Unquote(q[i + 1])
         ELSE redirect_target(raw, q, Tail(keys))

_clean_url(raw) ==
    IF Contains(BingRedirect, raw) \/ Contains(DdgRedirect, raw)
    THEN redirect_target(raw, QueryPart(raw), <<"u=", "uddg=", "r=">>)
    ELSE raw

\* The loop over one backend's records (services.py 192-197, 207-212).  A
\* record whose url is None makes .strip() raise.
RECURSIVE collect(_, _)
collect(results, output) ==
    IF results = <<>> THEN [raised |-> FALSE, out |-> output]
    ELSE LET r == Head(results) IN
         IF r.url = <<NoneVal>> THEN [raised |-> TRUE, out |-> <<>>]
         ELSE LET url == _clean_url(Strip(r.url)) IN
              IF url # <<>>
              THEN collect(Tail(results),
                           Append(output, SearchResult(Strip(r.title), url, r.snippet)))
              ELSE collect(Tail(results), output)

\* The body of one backend's try block: the call, then the loop.
brave_try(b) ==
    CASE b.kind = "error" -> [raised |-> TRUE, out |-> <<>>]
      [] b.kind = "status" -> [raised |-> FALSE, out |-> <<>>]
      [] OTHER -> collect(b.results, <<>>)

ddg_try(d) ==
    CASE d.kind = "error" -> [raised |-> TRUE, out |-> <<>>]
      [] OTHER -> collect(d.results, <<>>)

\* re.sub(r'site:\S+|"', "", query).split()[:4]
Keywords(query) ==
    Take(SelectSeq(query, LAMBDA t : t \notin {" ", "\"", "site:linkedin.com/company",
                                                 "site:linkedin.com/in"}), 4)

SearchPage == <<"https://", "www.", "linkedin.com", "/", "search", "/", "results", "/">>

placeholder(query) ==
    LET keywords == Keywords(query)
        term == Join("+", keywords)
    IN  << SearchResult(<<"LinkedIn", " ", "Companies:", " ">> \o Join(" ", keywords),
                        SearchPage \o <<"companies", "/", "?", "keywords=">> \o term,
                        "Browse matching companies on LinkedIn"),
           SearchResult(<<"LinkedIn", " ", "People:", " ">> \o Join(" ", keywords),
                        SearchPage \o <<"people", "/", "?", "keywords=">> \o term,
                        "Browse matching profiles on LinkedIn") >>

\* search_web without the except clause around the secondary backend.
search_web_notry(query, max_results, b, d) ==
    LET bt == IF b.kind = "off" THEN [raised |-> FALSE, out |-> <<>>] ELSE brave_try(b)
        dt == ddg_try(d)
    IN  IF ~bt.raised /\ bt.out # <<>> THEN [raised |-> FALSE, out |-> bt.out]
        ELSE IF dt.raised THEN [raised |-> TRUE, out |-> <<>>]
        ELSE IF dt.out # <<>> THEN [raised |-> FALSE, out |-> dt.out]
        ELSE [raised |-> FALSE, out |-> placeholder(query)]

\* search_web that returns whatever the secondary backend gave, even nothing.
search_web_noplaceholder(query, max_results, b, d) ==
    LET bt == IF b.kind = "off" THEN [raised |-> FALSE, out |-> <<>>] ELSE brave_try(b)
        dt == ddg_try(d)
    IN  IF ~bt.raised /\ bt.out # <<>> THEN [raised |-> FALSE, out |-> bt.out]
        ELSE [raised |-> FALSE, out |-> IF dt.raised THEN <<>> ELSE dt.out]

\* services.py search_web: primary API (when configured), secondary backend,
\* placeholder.  Every exception of a backend is swallowed by its except clause.
search_web(query, max_results, b, d) ==
    LET bt == IF b.kind = "off" THEN [raised |-> FALSE, out |-> <<>>] ELSE brave_try(b)
        dt == ddg_try(d)
    IN  IF ~bt.raised /\ bt.out # <<>> THEN [raised |-> FALSE, out |-> bt.out]
        ELSE IF ~dt.raised /\ dt.out # <<>> THEN [raised |-> FALSE, out |-> dt.out]
        ELSE [raised |-> FALSE, out |-> placeholder(query)]

\* app.py search_web: the secondary backend and the placeholder only.
app_search_web(query, max_results, d) ==
    LET dt == ddg_try(d)
    IN  IF ~dt.raised /\ dt.out # <<>> THEN [raised |-> FALSE, out |-> dt.out]
        ELSE [raised |-> FALSE, out |-> placeholder(query)]

(***************************************************************************)
(* Tiered query planner (services.py 234-269, app.py 409-437)              *)
(***************************************************************************)

\* " ".join(strings)
RECURSIVE JoinStrings(_)
JoinStrings(strs) ==
    IF strs = <<>> THEN <<>>
    ELSE IF Len(strs) = 1 THEN Head(strs)
    ELSE Head(strs) \o <<" ">> \o JoinStrings(Tail(strs))

\* Quote a term if it contains spaces.
_q(term) ==
    LET t == Strip(term) IN
    IF (\E i \in 1..Len(t) : t[i] = " ") /\ t[1] # "\""
    THEN <<"\"">> \o t \o <<"\"">>
    ELSE t

Quoted(term) == <<"\"">> \o term \o <<"\"">>

SiteCompany == <<"site:linkedin.com/company">>
SiteIn == <<"site:linkedin.com/in">>

extra_str(extra) == JoinStrings([i \in 1..Len(Take(extra, 2)) |-> _q(extra[i])])

\* services.py find_agencies, lines 242-246
find_agencies_queries(icp, industry, region, extra) ==
    << Strip(JoinStrings(<<SiteCompany, _q(icp), _q(industry), _q(region)>>)
             \o <<" ">> \o extra_str(extra)),
       Strip(JoinStrings(<<SiteCompany, _q(icp), _q(region)>>)) >>

\* services.py find_people, lines 258-262
find_people_queries(icp, industry, region, extra) ==
    << Strip(JoinStrings(<<SiteIn, _q(icp), _q(industry), _q(region)>>)
             \o <<" ">> \o extra_str(extra)),
       Strip(JoinStrings(<<SiteIn, _q(icp), _q(region)>>)) >>

\* app.py find_agencies, lines 410-414
app_find_agencies_queries(icp, industry, region) ==
    << JoinStrings(<<SiteCompany, Quoted(icp), industry, <<"agency">>, Quoted(region)>>),
       JoinStrings(<<SiteCompany, icp, industry, <<"agency">>, region>>),
       JoinStrings(<<icp, industry, <<"agency">>, region, <<"linkedin.com/company">>>>) >>

\* app.py find_people, lines 427-431
app_find_people_queries(icp, industry, region) ==
    << JoinStrings(<<SiteIn, Quoted(icp), industry, Quoted(region)>>),
       JoinStrings(<<SiteIn, icp, industry, region>>),
       JoinStrings(<<icp, industry, region, <<"linkedin.com/in">>>>) >>

\* The inner loop over one tier's results: what is appended to hits.
\* services.py 251-254: the company is set on a company page, and every
\* result is appended.
find_agencies_absorb(hits, results) ==
    hits \o [i \in 1..Len(results) |->
                IF is_linkedin_company(results[i].url)
                THEN [results[i] EXCEPT !.company = _company_from_url(results[i].url)]
                ELSE results[i]]

\* services.py 267-268: every result is appended.
find_people_absorb(hits, results) == hits \o results

\* app.py 419-422: only company pages are appended.
app_find_agencies_absorb(hits, results) ==
    hits \o [i \in 1..Len(SelectSeq(results, LAMBDA r : is_linkedin_company(r.url))) |->
                LET r == SelectSeq(results, LAMBDA x : is_linkedin_company(x.url))[i]
                IN  [r EXCEPT !.company = _company_from_url(r.url)]]

\* Every result is appended, whatever its kind.
absorb_unfiltered(hits, results) == hits \o results

\* app.py 436: only profile pages are appended.
app_find_people_absorb(hits, results) ==
    hits \o SelectSeq(results, LAMBDA r : is_linkedin_profile(r.url))

\* return dedupe_by_url(hits) without the [:n]
planner_return_uncut(hits, n) == dedupe_by_url(hits)

\* return hits[:n] without the dedup
planner_return_nodedupe(hits, n) == Take(hits, n)

\* return dedupe_by_url(hits)[:n]
planner_return(hits, n) == Take(dedupe_by_url(hits), n)

(***************************************************************************)
(* The world outside: URLs, backend records and the pages a backend can    *)
(* answer a query with.                                                    *)
(***************************************************************************)

Raw(title, url, snippet) == [title |-> title, url |-> url, snippet |-> snippet]

CompanyUrl(slug) == <<"https://", "linkedin.com", "/", "company", "/">> \o slug
ProfileUrl(slug) == <<"https://", "linkedin.com", "/", "in", "/">> \o slug

\* The two backend answers of test_app.py (lines 66-71 and 102-107).
PageCompanies ==
    << Raw(<<"Acme", " ", "Agency", " ", "|", " ", "LinkedIn">>,
           CompanyUrl(<<"acme", "/", "?", "trk=1">>), "a"),
       Raw(<<"Acme">>, CompanyUrl(<<"acme", "/">>), "b"),
       Raw(<<"Beta", " ", "-", " ", "Labs">>, CompanyUrl(<<"beta", "-", "labs", "/">>), "c"),
       Raw(<<"X">>, <<"https://", "example.com", "/", "not-linkedin">>, "") >>

PagePeople ==
    << Raw(<<"P1">>, ProfileUrl(<<"jane", "?", "trk=abc">>), ""),
       Raw(<<"P2">>, ProfileUrl(<<"jane">>), ""),
       Raw(<<"P3">>, ProfileUrl(<<"john">>), ""),
       Raw(<<"NotProfile">>, CompanyUrl(<<"acme">>), "") >>

\* One hit, with surrounding blanks and an upper-case host and path.
PageOne ==
    << Raw(<<" ", "Gamma", " ", "|", " ", "LinkedIn", " ">>,
           <<" ", "https://", "www.", "LinkedIn.com", "/", "Company", "/", "Gamma", " ">>,
           "d") >>

\* Records without a usable URL.
PageBlank == << Raw(<<"E1">>, <<>>, ""), Raw(<<"E2">>, <<" ">>, "") >>

\* A record whose url is None, after a good one.
PageBad == << Raw(<<"P4">>, ProfileUrl(<<"sam">>), ""), Raw(<<"E3">>, <<NoneVal>>, "") >>

\* A hit wrapped in a redirector link.
PageRedirect ==
    << Raw(<<"Jane">>,
           <<"https://", "duckduckgo.com", "/", "l", "/", "?", "uddg=",
             "https%3A%2F%2Flinkedin.com%2Fin%2Fjane", "&", "rut=", "1">>, "") >>

\* A full page: as many hits as the orchestrators' cap, few of them distinct.
PageFull == PageCompanies \o PagePeople

AllPages == {PageCompanies, PagePeople, PageOne, PageBlank, PageBad, PageRedirect, PageFull}

BraveOff == [kind |-> "off", results |-> <<>>]

BraveOutcomes(pages) ==
    {[kind |-> k, results |-> <<>>] : k \in {"off", "error", "status"}}
        \cup {[kind |-> "ok", results |-> p] : p \in pages \cup {<<>>}}

DdgOutcomes(pages) ==
    {[kind |-> "error", results |-> <<>>]}
        \cup {[kind |-> "ok", results |-> p] : p \in pages \cup {<<>>}}

Intent(icp, industry, region, search_type, extra) ==
    [icp |-> icp, industry |-> industry, region |-> region,
     search_type |-> search_type, extra_keywords |-> extra]

NoIntent == Intent(<<>>, <<>>, <<>>, "both", <<>>)

Branches == {"agencies", "people"}
Variants == {"backend", "app"}

(***************************************************************************)
(* State                                                                   *)
(***************************************************************************)
VARIABLES
    variant,         \* which program runs: services.py ("backend") or app.py ("app")
    web,             \* the pages the search backends can answer with
    intent,          \* the parsed intent of the request
    items,           \* dedupe_by_url: the input list
    output,          \* dedupe_by_url: the list returned
    output2,         \* dedupe_by_url applied to its own output
    applied,         \* dedupe_by_url: how often it was applied
    call,            \* search_web: the call and what the backends do
    ret,             \* search_web: what the call gave
    plan,            \* per branch: the planner's loop (pc, n, hits, asked, result)
    pc,              \* the orchestrator's position
    agencies,        \* run_search_logic / run_search: the three result lists
    people,
    company_people,
    fan,             \* find_people_at_companies: pc, targets, tasks, people, asked
    resp,            \* the answer to the caller
    parse,           \* parse_user_prompt: the prompt, the classifier, the result
    session,         \* app.py: st.session_state (messages, all_results)
    probe            \* a helper called on its own: its argument and its result

envVars == <<variant, web, intent>>
dedupeVars == <<items, output, output2, applied>>
searchVars == <<call, ret>>
runVars == <<pc, agencies, people, company_people, resp>>
vars == <<variant, web, intent, items, output, output2, applied, call, ret,
          plan, pc, agencies, people, company_people, fan, resp, parse, session,
          probe>>

NoCall == [query |-> <<>>, max_results |-> 0, brave |-> BraveOff, ddg |-> BraveOff]
NoRet == [done |-> FALSE, raised |-> FALSE, out |-> <<>>]

IdlePlan == [pc |-> "idle", n |-> 0, hits |-> <<>>, asked |-> <<>>, result |-> <<>>]
IdleFan == [pc |-> "idle", per_company |-> 0, faults |-> {FALSE}, targets |-> <<>>,
            tasks |-> <<>>, people |-> <<>>, asked |-> <<>>, order |-> <<>>]

NoLlm == [kind |-> "error", content |-> <<>>]
NoParsed == [icp |-> "", industry |-> "", region |-> "", search_type |-> "",
             raw_prompt |-> "", extra_keywords |-> <<>>]
IdleParse == [prompt |-> "", client |-> FALSE, llm |-> NoLlm, done |-> FALSE,
              raised |-> FALSE, result |-> NoParsed]
\* The export of the footer when it is not rendered.
NoExport == [shown |-> FALSE, rows |-> <<>>]

\* app.py 530-533: both lists start empty.  since_clear is a history of the
\* model: what each search returned since the last Clear Chat.
IdleSession == [messages |-> <<>>, all_results |-> <<>>, export |-> NoExport,
                since_clear |-> <<>>]

IdleProbe == [fn |-> "none", arg |-> <<>>, done |-> FALSE, out |-> <<>>]
ProbeIdle == probe = IdleProbe
ParseIdle == parse = IdleParse
SessionIdle == session = IdleSession
DedupeIdle == items = <<>> /\ output = <<>> /\ output2 = <<>> /\ applied = 0
SearchIdle == call = NoCall /\ ret = NoRet
PlanIdle == plan = [b \in Branches |-> IdlePlan]
FanIdle == fan = IdleFan
RunIdle ==
    /\ pc = "idle" /\ agencies = <<>> /\ people = <<>> /\ company_people = <<>>
    /\ resp = "none"

(***************************************************************************)
(* dedupe_by_url applied to bounded lists                                  *)
(***************************************************************************)
MaxItems == 3

DedupeBases ==
    { ProfileUrl(<<"x">>), CompanyUrl(<<"acme">>),
      <<"https://", "example.com", "/", "not-linkedin">> }

\* The URLs that differ from base only in a query string or a trailing slash.
VariantsOf(base) ==
    { base, base \o <<"/">>, base \o <<"?", "trk=abc">>, base \o <<"/", "?", "trk=1">> }

DedupeUrls == UNION {VariantsOf(b) : b \in DedupeBases}

PositionTitle == <<"A", "A2", "A3", "A4", "A5">>

DedupeInputs ==
    UNION { {[i \in 1..k |-> SearchResult(<<PositionTitle[i]>>, f[i], "")] :
                f \in [1..k -> DedupeUrls]} : k \in 0..MaxItems }

DedupeInit ==
    /\ variant = "backend" /\ web = {} /\ intent = NoIntent
    /\ items \in DedupeInputs
    /\ output = <<>> /\ output2 = <<>> /\ applied = 0
    /\ SearchIdle /\ PlanIdle /\ FanIdle /\ RunIdle
    /\ ParseIdle /\ SessionIdle /\ ProbeIdle

DedupeCall ==
    /\ applied = 0
    /\ output' = dedupe_by_url(items)
    /\ applied' = 1
    /\ UNCHANGED <<envVars, parse, session, probe, items, output2, searchVars, plan, runVars, fan>>

DedupeRerun ==
    /\ applied = 1
    /\ output2' = dedupe_by_url(output)
    /\ applied' = 2
    /\ UNCHANGED <<envVars, parse, session, probe, items, output, searchVars, plan, runVars, fan>>

DedupeNext == DedupeCall \/ DedupeRerun

SpecDedupe == DedupeInit /\ [][DedupeNext]_vars

Range(s) == {s[i] : i \in 1..Len(s)}

SameUpToQueryOrSlash(u1, u2) ==
    \E b \in DedupeBases : u1 \in VariantsOf(b) /\ u2 \in VariantsOf(b)

FirstSeen(i) == \A k \in 1..(i - 1) : ~SameUpToQueryOrSlash(items[k].url, items[i].url)

\* C5: once dedupe_by_url has run, of the entries whose URLs differ only in
\* the query string or a trailing slash exactly the one seen first is kept.
C5_DedupeCollapsesVariants ==
    applied >= 1 =>
        \A i \in 1..Len(items) : (items[i] \in Range(output)) <=> FirstSeen(i)

\* The example of the spec: '.../in/x?trk=abc' then '.../in/x' gives one
\* result, whose url is '.../in/x?trk=abc'.
C5_Witness ==
    /\ applied >= 1
    /\ Len(items) = 2
    /\ items[1].url = ProfileUrl(<<"x", "?", "trk=abc">>)
    /\ items[2].url = ProfileUrl(<<"x">>)
    /\ Len(output) = 1
    /\ output[1].url = ProfileUrl(<<"x", "?", "trk=abc">>)

\* C6: dedupe_by_url applied to its own output returns that output, element
\* for element.
C6_DedupeIdempotent == applied = 2 => output2 = output

C6_Witness == applied = 2 /\ Len(items) = 3 /\ Len(output) = 2 /\ output2 = output

(***************************************************************************)
(* search_web called once, for every behaviour of the two backends         *)
(***************************************************************************)
Icp1 == <<"ceo">>
Icp2 == <<"growth", " ", "lead">>
Industry1 == <<"fintech">>
Region1 == <<"United", " ", "States">>
Extra1 == << <<"series", " ", "b">>, <<"payments">>, <<"ignored">> >>

SearchQueries ==
    { find_agencies_queries(Icp1, Industry1, Region1, <<>>)[1],
      find_people_queries(Icp2, Industry1, Region1, Extra1)[1],
      app_find_people_queries(Icp1, Industry1, Region1)[3],
      <<>> }

SearchInit ==
    /\ variant \in Variants /\ web = AllPages /\ intent = NoIntent
    /\ call \in { [query |-> q, max_results |-> 16, brave |-> b, ddg |-> d] :
                    q \in SearchQueries,
                    b \in IF variant = "app" THEN {BraveOff} ELSE BraveOutcomes(web),
                    d \in DdgOutcomes(web) }
    /\ ret = NoRet
    /\ DedupeIdle /\ PlanIdle /\ FanIdle /\ RunIdle
    /\ ParseIdle /\ SessionIdle /\ ProbeIdle

SearchCall ==
    /\ ~ret.done
    /\ ret' = LET r == IF variant = "app"
                       THEN app_search_web(call.query, call.max_results, call.ddg)
                       ELSE search_web(call.query, call.max_results, call.brave, call.ddg)
              IN  [done |-> TRUE, raised |-> r.raised, out |-> r.out]
    /\ UNCHANGED <<envVars, parse, session, probe, dedupeVars, call, plan, runVars, fan>>

SearchNext == SearchCall

SpecSearch == SearchInit /\ [][SearchNext]_vars

\* A backend yields nothing: it is not configured, its call fails or answers
\* with another status than 200, a record makes the loop raise, or no record
\* has a URL left after stripping.
YieldsNothing(o) ==
    \/ o.kind # "ok"
    \/ \E i \in 1..Len(o.results) : o.results[i].url = <<NoneVal>>
    \/ \A i \in 1..Len(o.results) : \A k \in 1..Len(o.results[i].url) :
           o.results[i].url[k] = " "

IsSearchLink(r, what) ==
    /\ Len(r.url) >= 11
    /\ SubSeq(r.url, 1, 11) =
         <<"https://", "www.", "linkedin.com", "/", "search", "/", "results", "/",
           what, "/", "?">>

\* C8: search_web never raises and never returns an empty list, and when
\* both real backends yield nothing it returns exactly the two placeholder
\* records: a companies search link, then a people search link.
C8_SearchNeverEmpty ==
    ret.done =>
        /\ ~ret.raised
        /\ ret.out # <<>>
        /\ (YieldsNothing(call.brave) /\ YieldsNothing(call.ddg)) =>
               /\ Len(ret.out) = 2
               /\ IsSearchLink(ret.out[1], "companies")
               /\ IsSearchLink(ret.out[2], "people")

\* The primary API fails, a record of the secondary backend makes the loop
\* raise, and the placeholders are returned.
C8_Witness ==
    /\ ret.done
    /\ call.brave.kind = "error"
    /\ call.ddg = [kind |-> "ok", results |-> PageBad]
    /\ Len(ret.out) = 2
    /\ IsSearchLink(ret.out[1], "companies")

(***************************************************************************)
(* The planners' loop over the tiers, one search_web call per step         *)
(***************************************************************************)

\* The tier the loop queries next, 0 when it is over, with the break removed.
planner_next_nobreak(hits, n, queries, asked) ==
    IF Len(asked) < Len(queries) THEN Len(asked) + 1 ELSE 0

\* The tier the loop queries next, 0 when it is over, skipping the second tier.
planner_next_skip(hits, n, queries, asked) ==
    IF Len(asked) < Len(queries) /\ Len(hits) < n
    THEN (IF Len(asked) = 1 /\ Len(queries) > 2 THEN 3 ELSE Len(asked) + 1)
    ELSE 0

\* The loop that stops at the first tier that gave a hit.
planner_next_firsthit(hits, n, queries, asked) ==
    IF Len(asked) < Len(queries) /\ Len(hits) < n /\ hits = <<>>
    THEN Len(asked) + 1
    ELSE 0

\* services.py 248-250, 264-266: `for query in queries: if len(hits) >= n: break`.
\* The tier the loop queries next, 0 when it is over.
planner_next(hits, n, queries, asked) ==
    IF Len(asked) < Len(queries) /\ Len(hits) < n THEN Len(asked) + 1 ELSE 0

\* app.py 416-418, 433-435: the same loop.
app_planner_next(hits, n, queries, asked) ==
    IF Len(asked) < Len(queries) /\ Len(hits) < n THEN Len(asked) + 1 ELSE 0

\* app.py 423, 437
app_planner_return(hits, n) == Take(dedupe_by_url(hits), n)

Tiers(b) ==
    IF variant = "backend"
    THEN IF b = "agencies"
         THEN find_agencies_queries(intent.icp, intent.industry, intent.region,
                                    intent.extra_keywords)
         ELSE find_people_queries(intent.icp, intent.industry, intent.region,
                                  intent.extra_keywords)
    ELSE IF b = "agencies"
         THEN app_find_agencies_queries(intent.icp, intent.industry, intent.region)
         ELSE app_find_people_queries(intent.icp, intent.industry, intent.region)

NextTier(b) ==
    IF variant = "backend"
    THEN planner_next(plan[b].hits, plan[b].n, Tiers(b), plan[b].asked)
    ELSE app_planner_next(plan[b].hits, plan[b].n, Tiers(b), plan[b].asked)

Absorb(b, hits, results) ==
    IF variant = "backend"
    THEN IF b = "agencies" THEN find_agencies_absorb(hits, results)
         ELSE find_people_absorb(hits, results)
    ELSE IF b = "agencies" THEN app_find_agencies_absorb(hits, results)
         ELSE app_find_people_absorb(hits, results)

\* What the backends may do on one search_web call of this program.
BraveNow == IF variant = "app" THEN {BraveOff} ELSE BraveOutcomes(web)
DdgNow == DdgOutcomes(web)

Search(query, max_results, b, d) ==
    IF variant = "app" THEN app_search_web(query, max_results, d)
    ELSE search_web(query, max_results, b, d)

\* One iteration of the loop: the tier's query is sent and its results are
\* absorbed.  An exception of search_web leaves the planner.
PlannerQuery(b) ==
    /\ plan[b].pc = "run"
    /\ NextTier(b) # 0
    /\ \E br \in BraveNow, d \in DdgNow :
         LET query == Tiers(b)[NextTier(b)]
             sw == Search(query, plan[b].n * 2, br, d)
             ask == [query |-> query, max_results |-> plan[b].n * 2]
         IN  plan' = [plan EXCEPT ![b] =
                 IF sw.raised
                 THEN [@ EXCEPT !.pc = "raised", !.asked = Append(@, ask)]
                 ELSE [@ EXCEPT !.hits = Absorb(b, @, sw.out),
                                !.asked = Append(@, ask)]]
    /\ UNCHANGED <<envVars, parse, session, probe, dedupeVars, searchVars, runVars, fan>>

\* The loop is over: dedupe_by_url(hits)[:n] is returned.
PlannerReturn(b) ==
    /\ plan[b].pc = "run"
    /\ NextTier(b) = 0
    /\ plan' = [plan EXCEPT ![b] =
                  [@ EXCEPT !.pc = "done",
                            !.result = IF variant = "backend"
                                       THEN planner_return(plan[b].hits, plan[b].n)
                                       ELSE app_planner_return(plan[b].hits, plan[b].n)]]
    /\ UNCHANGED <<envVars, parse, session, probe, dedupeVars, searchVars, runVars, fan>>

(***************************************************************************)
(* One planner called with every cap, as the tests call it                 *)
(***************************************************************************)
MaxCap == 3

PlannerPages == {PageCompanies, PagePeople, PageOne, PageBlank}

PlannerIntents ==
    { Intent(Icp1, Industry1, Region1, "both", <<>>),
      Intent(Icp2, Industry1, Region1, "both", Extra1) }

PlannerInit ==
    /\ variant \in Variants /\ web = PlannerPages /\ intent \in PlannerIntents
    /\ \E b \in Branches, n \in 1..MaxCap :
         plan = [x \in Branches |->
                   IF x = b THEN [IdlePlan EXCEPT !.pc = "run", !.n = n] ELSE IdlePlan]
    /\ DedupeIdle /\ SearchIdle /\ FanIdle /\ RunIdle
    /\ ParseIdle /\ SessionIdle /\ ProbeIdle

PlannerNext == \E b \in Branches : PlannerQuery(b) \/ PlannerReturn(b)

SpecPlanner == PlannerInit /\ [][PlannerNext]_vars

\* The classifier of a branch's kind.
OfKind(b, url) == IF b = "agencies" THEN is_linkedin_company(url) ELSE is_linkedin_profile(url)

MatchCount(b, hits) == Len(SelectSeq(hits, LAMBDA r : OfKind(b, r.url)))

Asked(b) == [i \in 1..Len(plan[b].asked) |-> plan[b].asked[i].query]

\* The URL without its query string and without trailing slashes: the
\* longest prefix before the first "?" that does not end in "/".
CanonicalKey(url) ==
    LET marks == {i \in 1..Len(url) : url[i] = "?"}
        stop == IF marks = {} THEN Len(url)
                ELSE (CHOOSE i \in marks : \A j \in marks : i <= j) - 1
        kept == {i \in 1..stop : url[i] # "/"}
        last == IF kept = {} THEN 0 ELSE CHOOSE i \in kept : \A j \in kept : j <= i
    IN  SubSeq(url, 1, last)

\* The statement of C2 as the spec has it: in the strict planner (app.py),
\* once a tier has yielded a result of the planner's kind no later tier is
\* queried.
C2_StopsAtFirstMatch ==
    [][\A b \in Branches :
          (variant = "app" /\ MatchCount(b, plan[b].hits) >= 1)
              => plan'[b].asked = plan[b].asked]_vars

\* C2, amended: the strict planner (app.py) stops at the first tier after
\* which at least cap results of its kind have accumulated; a tier is queried
\* only while fewer than cap have accumulated, and the planner returns before
\* its last tier only when cap is reached.
C2_StopsAtCap ==
    [][\A b \in Branches : variant = "app" =>
          /\ plan'[b].asked # plan[b].asked => MatchCount(b, plan[b].hits) < plan[b].n
          /\ (plan[b].pc = "run" /\ plan'[b].pc = "done"
                  /\ Len(plan[b].asked) < Len(Tiers(b)))
                 => MatchCount(b, plan[b].hits) >= plan[b].n]_vars

\* The first tier gave one company page, the cap is 3, and the second tier
\* was queried and brought the count to the cap.
C2_Witness ==
    /\ variant = "app"
    /\ plan["agencies"].pc = "done"
    /\ plan["agencies"].n = 3
    /\ Len(plan["agencies"].asked) = 2
    /\ Len(plan["agencies"].hits) = 4
    /\ plan["agencies"].hits[1].title = <<"Gamma", " ", "|", " ", "LinkedIn">>
    /\ plan["agencies"].hits[2].title = <<"Acme", " ", "Agency", " ", "|", " ", "LinkedIn">>

\* C3: the queries a planner has issued are always the first tiers of its
\* tier list, in the declared order, and no query is issued once the number
\* of accumulated results of the planner's kind has reached the cap.
C3_TiersInOrder ==
    /\ [](\A b \in Branches :
            /\ Len(plan[b].asked) <= Len(Tiers(b))
            /\ \A i \in 1..Len(plan[b].asked) : Asked(b)[i] = Tiers(b)[i])
    /\ [][\A b \in Branches :
            MatchCount(b, plan[b].hits) >= plan[b].n
                => plan'[b].asked = plan[b].asked]_vars

\* The backend company planner has asked its two tiers, most specific first.
C3_Witness ==
    /\ variant = "backend"
    /\ intent.icp = Icp1
    /\ plan["agencies"].pc = "done"
    /\ Asked("agencies") =
         << <<"site:linkedin.com/company", " ", "ceo", " ", "fintech", " ",
              "\"", "United", " ", "States", "\"">>,
            <<"site:linkedin.com/company", " ", "ceo", " ",
              "\"", "United", " ", "States", "\"">> >>

\* C7: a planner returns at most n entries, no two of them with the same
\* canonical URL key.
C7_CappedAndDistinct ==
    \A b \in Branches :
        plan[b].pc = "done" =>
            /\ Len(plan[b].result) <= plan[b].n
            /\ \A i, j \in 1..Len(plan[b].result) :
                   i # j => CanonicalKey(plan[b].result[i].url)
                              # CanonicalKey(plan[b].result[j].url)

\* The case of test_app.py: cap 2, three company pages found of which two
\* share a key; the first acme entry and beta are returned.
C7_Witness ==
    /\ plan["agencies"].pc = "done"
    /\ plan["agencies"].n = 2
    /\ Len(plan["agencies"].hits) >= 3
    /\ Len(plan["agencies"].result) = 2
    /\ plan["agencies"].result[1].url = CompanyUrl(<<"acme", "/", "?", "trk=1">>)
    /\ plan["agencies"].result[2].url = CompanyUrl(<<"beta", "-", "labs", "/">>)

(***************************************************************************)
(* Company-to-people fan-out (services.py 271-299, app.py 440-456)         *)
(***************************************************************************)

\* services.py 291: at most this many companies are considered.
FanoutCompanies == 6

\* services.py 292: the ceiling of the worker pool.
FanoutWorkers == 6

Tag(results, company_name) ==
    [i \in 1..Len(results) |-> [results[i] EXCEPT !.company = company_name]]

\* services.py 280-284: append, then break once len(results) >= per_company.
fetch_loop(results, company_name, per_company) ==
    Take(Tag(results, company_name), IF per_company < 1 THEN 1 ELSE per_company)

\* _fetch_people_for_company without the test of the name's length.
_fetch_people_anyname(agency, icp, per_company, fault, b, d) ==
    IF Contains(FallbackMarker, agency.url)
    THEN [raised |-> FALSE, failed |-> FALSE, asked |-> <<>>, out |-> <<>>]
    ELSE LET company_name == IF agency.company # <<>> THEN agency.company
                             ELSE parse_agency_name(agency.title)
             query == JoinStrings(<<SiteIn, _q(company_name), _q(icp)>>)
             ask == [query |-> query, max_results |-> per_company * 2]
             sw == IF fault THEN [raised |-> TRUE, out |-> <<>>]
                   ELSE search_web(query, per_company * 2, b, d)
         IN  IF sw.raised
             THEN [raised |-> FALSE, failed |-> TRUE, asked |-> <<ask>>, out |-> <<>>]
             ELSE [raised |-> FALSE, failed |-> FALSE, asked |-> <<ask>>,
                   out |-> fetch_loop(sw.out, company_name, per_company)]

\* One company's sub-search.  fault: the search_web call itself raises.
\* Gives the queries sent and the list returned; raised stays FALSE, the
\* except clause of lines 285-286 swallows the exception.
_fetch_people_for_company(agency, icp, per_company, fault, b, d) ==
    IF Contains(FallbackMarker, agency.url)
    THEN [raised |-> FALSE, failed |-> FALSE, asked |-> <<>>, out |-> <<>>]
    ELSE LET company_name == IF agency.company # <<>> THEN agency.company
                             ELSE parse_agency_name(agency.title)
         IN  IF company_name = <<>> \/ CharLen(company_name) < 2
             THEN [raised |-> FALSE, failed |-> FALSE, asked |-> <<>>, out |-> <<>>]
             ELSE LET query == JoinStrings(<<SiteIn, _q(company_name), _q(icp)>>)
                      ask == [query |-> query, max_results |-> per_company * 2]
                      sw == IF fault THEN [raised |-> TRUE, out |-> <<>>]
                            ELSE search_web(query, per_company * 2, b, d)
                  IN  IF sw.raised
                      THEN [raised |-> FALSE, failed |-> TRUE, asked |-> <<ask>>,
                            out |-> <<>>]
                      ELSE [raised |-> FALSE, failed |-> FALSE, asked |-> <<ask>>,
                            out |-> fetch_loop(sw.out, company_name, per_company)]

\* targets taken from the whole list, without the [:6]
fanout_targets_uncapped(companies) ==
    SelectSeq(companies, LAMBDA a : ~Contains(FallbackMarker, a.url))

\* services.py 291
fanout_targets(companies) ==
    SelectSeq(Take(companies, FanoutCompanies), LAMBDA a : ~Contains(FallbackMarker, a.url))

\* services.py 292: ThreadPoolExecutor(max_workers=...) raises ValueError for
\* max_workers <= 0.
pool_workers(targets) ==
    IF Len(targets) < FanoutWorkers THEN Len(targets) ELSE FanoutWorkers

\* `people = future.result()` in place of people.extend(...)
fan_overwrite(acc, out) == out

\* services.py 296: people.extend(future.result())
fan_extend(acc, out) == acc \o out

\* app.py 447-453: the loop over one company's results.
RECURSIVE app_fetch_loop(_, _, _, _)
app_fetch_loop(acc, results, company_name, per_company) ==
    IF results = <<>> THEN acc
    ELSE IF is_linkedin_profile(Head(results).url)
    THEN LET grown == Append(acc, [Head(results) EXCEPT !.company = company_name])
             company_count == Len(SelectSeq(grown, LAMBDA x : x.company = company_name))
         IN  IF company_count >= per_company THEN grown
             ELSE app_fetch_loop(grown, Tail(results), company_name, per_company)
    ELSE app_fetch_loop(acc, Tail(results), company_name, per_company)

\* One iteration of app.py's loop without its try/except.
app_fetch_people_notry(acc, agency, icp, per_company, fault, d) ==
    LET company_name == IF agency.company # <<>> THEN agency.company
                        ELSE parse_agency_name(agency.title)
        query == JoinStrings(<<SiteIn, Quoted(company_name), icp>>)
        ask == [query |-> query, max_results |-> per_company * 2]
        sw == IF fault THEN [raised |-> TRUE, out |-> <<>>]
              ELSE app_search_web(query, per_company * 2, d)
    IN  IF sw.raised
        THEN [raised |-> TRUE, failed |-> TRUE, asked |-> <<ask>>, people |-> acc]
        ELSE [raised |-> FALSE, failed |-> FALSE, asked |-> <<ask>>,
              people |-> app_fetch_loop(acc, sw.out, company_name, per_company)]

\* app.py 442-455: one iteration of the loop over agencies[:6]; acc is the
\* people list so far.  `except Exception: continue` swallows the exception.
app_fetch_people(acc, agency, icp, per_company, fault, d) ==
    LET company_name == IF agency.company # <<>> THEN agency.company
                        ELSE parse_agency_name(agency.title)
        query == JoinStrings(<<SiteIn, Quoted(company_name), icp>>)
        ask == [query |-> query, max_results |-> per_company * 2]
        sw == IF fault THEN [raised |-> TRUE, out |-> <<>>]
              ELSE app_search_web(query, per_company * 2, d)
    IN  IF sw.raised
        THEN [raised |-> FALSE, failed |-> TRUE, asked |-> <<ask>>, people |-> acc]
        ELSE [raised |-> FALSE, failed |-> FALSE, asked |-> <<ask>>,
              people |-> app_fetch_loop(acc, sw.out, company_name, per_company)]

PendingTask == [st |-> "pending", failed |-> FALSE, got |-> <<>>]

\* find_people_at_companies is entered with the list in `agencies`:
\* services.py 290-293 builds the targets and the pool (which raises
\* ValueError when there is no target) and submits every task; app.py 441-442
\* takes agencies[:6].
FanoutStart ==
    /\ fan.pc = "start"
    /\ LET targets == IF variant = "backend" THEN fanout_targets(agencies)
                      ELSE Take(agencies, FanoutCompanies)
       IN  fan' = IF variant = "backend" /\ pool_workers(targets) <= 0
                  THEN [fan EXCEPT !.pc = "raised", !.targets = targets]
                  ELSE [fan EXCEPT !.pc = "running", !.targets = targets,
                                   !.tasks = [i \in 1..Len(targets) |-> PendingTask]]
    /\ UNCHANGED <<envVars, parse, session, probe, dedupeVars, searchVars, plan, runVars>>

\* The sub-searches a worker thread is executing.
InFlight(tasks) == {i \in 1..Len(tasks) : tasks[i].st = "running"}

\* services.py 292-293: a worker of the pool takes the oldest submitted task
\* that no worker has taken yet; the pool has max_workers threads.
FanoutTaskBegin(i) ==
    /\ variant = "backend"
    /\ fan.pc = "running"
    /\ fan.tasks[i].st = "pending"
    /\ \A k \in 1..(i - 1) : fan.tasks[k].st # "pending"
    /\ Cardinality(InFlight(fan.tasks)) < pool_workers(fan.targets)
    /\ fan' = [fan EXCEPT !.tasks[i].st = "running"]
    /\ UNCHANGED <<envVars, parse, session, probe, dedupeVars, searchVars, plan, runVars>>

\* services.py 293-298: a running task comes to its end and its result is
\* taken from as_completed, in whatever order the tasks complete.
FanoutTask(i) ==
    /\ variant = "backend"
    /\ fan.pc = "running"
    /\ fan.tasks[i].st = "running"
    /\ \E fault \in fan.faults, br \in BraveNow, d \in DdgNow :
         LET r == _fetch_people_for_company(fan.targets[i], intent.icp,
                                            fan.per_company, fault, br, d)
         IN  fan' = [fan EXCEPT
                       !.tasks[i] = [st |-> "done", failed |-> r.failed,
                                     got |-> IF r.raised THEN <<>> ELSE r.out],
                       !.people = IF r.raised THEN @ ELSE fan_extend(@, r.out),
                       !.asked = @ \o r.asked,
                       !.order = Append(@, i)]
    /\ UNCHANGED <<envVars, parse, session, probe, dedupeVars, searchVars, plan, runVars>>

\* app.py 442-455: the next company of the list, in list order.
AppFanoutTask(i) ==
    /\ variant = "app"
    /\ fan.pc = "running"
    /\ fan.tasks[i].st = "pending"
    /\ \A k \in 1..(i - 1) : fan.tasks[k].st = "done"
    /\ \E fault \in fan.faults, d \in DdgNow :
         LET r == app_fetch_people(fan.people, fan.targets[i], intent.icp,
                                   fan.per_company, fault, d)
         IN  fan' = IF r.raised
                    THEN [fan EXCEPT !.pc = "raised", !.tasks[i].failed = TRUE,
                                     !.asked = @ \o r.asked]
                    ELSE [fan EXCEPT
                            !.tasks[i] = [st |-> "done", failed |-> r.failed,
                                          got |-> SubSeq(r.people, Len(fan.people) + 1,
                                                         Len(r.people))],
                            !.people = r.people,
                            !.asked = @ \o r.asked,
                            !.order = Append(@, i)]
    /\ UNCHANGED <<envVars, parse, session, probe, dedupeVars, searchVars, plan, runVars>>

\* services.py 299, app.py 456: return dedupe_by_url(people)
FanoutReturn ==
    /\ fan.pc = "running"
    /\ \A i \in 1..Len(fan.tasks) : fan.tasks[i].st = "done"
    /\ fan' = [fan EXCEPT !.pc = "done"]
    /\ company_people' = dedupe_by_url(fan.people)
    /\ UNCHANGED <<envVars, parse, session, probe, dedupeVars, searchVars, plan, pc, agencies, people, resp>>

(***************************************************************************)
(* The fan-out called with bounded lists of companies, sub-searches that   *)
(* may raise included                                                      *)
(***************************************************************************)
MaxCompanies == 2
MaxPerCompany == 2

FanoutPages == {PagePeople, PageBad}

\* Entries as a company search returns them.
CompanyPool ==
    Range(find_agencies_absorb(<<>>,
              collect(<<PageCompanies[1], PageCompanies[3], PageCompanies[4]>>, <<>>).out))
        \cup {placeholder(<<"ceo">>)[1]}

FanoutInputs ==
    UNION { {f \in [1..k -> CompanyPool] :
                \A i, j \in 1..k : i # j => f[i] # f[j]} : k \in 0..MaxCompanies }

FanoutInit ==
    /\ variant \in Variants /\ web = FanoutPages
    /\ intent = Intent(Icp1, Industry1, Region1, "agencies", <<>>)
    /\ agencies \in FanoutInputs
    /\ \E k \in 1..MaxPerCompany :
         fan = [IdleFan EXCEPT !.pc = "start", !.per_company = k,
                               !.faults = {FALSE, TRUE}]
    /\ pc = "idle" /\ people = <<>> /\ company_people = <<>> /\ resp = "none"
    /\ DedupeIdle /\ SearchIdle /\ PlanIdle
    /\ ParseIdle /\ SessionIdle /\ ProbeIdle

FanoutNext ==
    \/ FanoutStart
    \/ \E i \in 1..Len(fan.tasks) : FanoutTaskBegin(i)
    \/ \E i \in 1..Len(fan.tasks) : FanoutTask(i)
    \/ \E i \in 1..Len(fan.tasks) : AppFanoutTask(i)
    \/ FanoutReturn

SpecFanout == FanoutInit /\ [][FanoutNext]_vars

\* What the completed tasks returned, in the order of their completion.
RECURSIVE GotInOrder(_)
GotInOrder(order) ==
    IF order = <<>> THEN <<>>
    ELSE fan.tasks[Head(order)].got \o GotInOrder(Tail(order))

\* C9: when a company's sub-search has raised, the fan-out does not raise,
\* the failed company contributes nothing, the people list is exactly what
\* the other companies' sub-searches returned, and each of their results is
\* represented in the merged list.
C9_FanoutIsolation ==
    (\E i \in 1..Len(fan.tasks) : fan.tasks[i].failed) =>
        /\ fan.pc # "raised"
        /\ \A i \in 1..Len(fan.tasks) : fan.tasks[i].failed => fan.tasks[i].got = <<>>
        /\ fan.people = GotInOrder(fan.order)
        /\ fan.pc = "done" =>
             \A j \in 1..Len(fan.tasks) : \A k \in 1..Len(fan.tasks[j].got) :
                 \E c \in Range(company_people) :
                     /\ CanonicalKey(c.url) = CanonicalKey(fan.tasks[j].got[k].url)
                     /\ \E m \in 1..Len(fan.tasks) :
                          c \in Range(fan.tasks[m].got) /\ ~fan.tasks[m].failed

\* The backend fan-out over two companies: the first one's sub-search raised,
\* the second one's results make up the merged list.
C9_Witness ==
    /\ variant = "backend"
    /\ fan.pc = "done"
    /\ Len(fan.tasks) = 2
    /\ fan.tasks[1].failed
    /\ ~fan.tasks[2].failed
    /\ Len(fan.tasks[2].got) = 2
    /\ company_people # <<>>
    /\ company_people[1] = fan.tasks[2].got[1]
    /\ company_people[1].url = ProfileUrl(<<"jane", "?", "trk=abc">>)

(***************************************************************************)
(* Orchestrators: run_search_logic + search_endpoint (services.py 301-334, *)
(* main.py 16-24) and run_search (app.py 502-526)                          *)
(***************************************************************************)

\* services.py 315, 319 and app.py 509, 513: the cap the planners are given.
RunCap == 8

\* services.py 327 and app.py 511: per_company
PerCompany == 3

\* A branch run whatever search_type says.
do_always(search_type) == TRUE

do_agencies(search_type) == search_type \in {"both", "agencies"}
do_people(search_type) == search_type \in {"both", "people"}

Selected(b) ==
    IF b = "agencies" THEN do_agencies(intent.search_type)
    ELSE do_people(intent.search_type)

\* Only the company branch is waited for.
branches_joined_agencies_only(p) == p["agencies"].pc \in {"idle", "done", "raised"}

\* A join that never returns.
branches_joined_never(p) == FALSE

\* services.py 311-324: the with block and the two .result() calls return
\* once every submitted branch has ended.
branches_joined(p) == \A b \in Branches : p[b].pc \in {"idle", "done", "raised"}

\* The fan-out entered whatever the company list holds.
fanout_always(companies) == TRUE

\* services.py 326: `if agencies:`
fanout_wanted(companies) == companies # <<>>

\* app.py 510: `if agencies:`
app_fanout_wanted(companies) == companies # <<>>

StartedPlan == [IdlePlan EXCEPT !.pc = "run", !.n = RunCap]
StartedFan == [IdleFan EXCEPT !.pc = "start", !.per_company = PerCompany]

\* services.py 302-320: the branches that search_type selects are submitted.
RunStart ==
    /\ variant = "backend"
    /\ pc = "start"
    /\ plan' = [b \in Branches |-> IF Selected(b) THEN StartedPlan ELSE IdlePlan]
    /\ pc' = "branches"
    /\ UNCHANGED <<envVars, parse, session, probe, dedupeVars, searchVars, agencies, people, company_people,
                   resp, fan>>

\* services.py 321-327: both results are taken, then the fan-out is entered
\* if there is a company.
RunJoin ==
    /\ variant = "backend"
    /\ pc = "branches"
    /\ branches_joined(plan)
    /\ IF \E b \in Branches : plan[b].pc = "raised"
       THEN pc' = "failed" /\ UNCHANGED <<agencies, people, fan>>
       ELSE /\ agencies' = plan["agencies"].result
            /\ people' = plan["people"].result
            /\ IF fanout_wanted(plan["agencies"].result)
               THEN pc' = "fanout" /\ fan' = StartedFan
               ELSE pc' = "respond" /\ UNCHANGED fan
    /\ UNCHANGED <<envVars, parse, session, probe, dedupeVars, searchVars, plan, company_people, resp>>

\* services.py 327 / app.py 511: find_people_at_companies has returned or
\* raised.
RunFanoutDone ==
    /\ pc = "fanout"
    /\ fan.pc \in {"done", "raised"}
    /\ pc' = IF fan.pc = "raised" THEN "failed"
             ELSE IF variant = "backend" THEN "respond" ELSE "after_agencies"
    /\ UNCHANGED <<envVars, parse, session, probe, dedupeVars, searchVars, plan, agencies, people,
                   company_people, resp, fan>>

\* services.py 329-334 and main.py 21-22; app.py 515-526.
Respond ==
    /\ pc = "respond"
    /\ resp' = IF variant = "backend" THEN "200" ELSE "returned"
    /\ pc' = "done"
    /\ UNCHANGED <<envVars, parse, session, probe, dedupeVars, searchVars, plan, agencies, people,
                   company_people, fan>>

\* main.py 23-24: an exception of run_search_logic is answered with a 500
\* (in app.py it leaves run_search).
RunFailed ==
    /\ pc = "failed"
    /\ resp' = IF variant = "backend" THEN "500" ELSE "exception"
    /\ pc' = "done"
    /\ UNCHANGED <<envVars, parse, session, probe, dedupeVars, searchVars, plan, agencies, people,
                   company_people, fan>>

\* app.py 503-509: the company search runs first, if selected.
AppStart ==
    /\ variant = "app"
    /\ pc = "start"
    /\ IF do_agencies(intent.search_type)
       THEN pc' = "agencies" /\ plan' = [plan EXCEPT !["agencies"] = StartedPlan]
       ELSE pc' = "after_agencies" /\ UNCHANGED plan
    /\ UNCHANGED <<envVars, parse, session, probe, dedupeVars, searchVars, agencies, people, company_people,
                   resp, fan>>

\* app.py 509-511: find_agencies has returned; the fan-out follows at once.
AppAgenciesDone ==
    /\ variant = "app"
    /\ pc = "agencies"
    /\ plan["agencies"].pc \in {"done", "raised"}
    /\ IF plan["agencies"].pc = "raised"
       THEN pc' = "failed" /\ UNCHANGED <<agencies, fan>>
       ELSE /\ agencies' = plan["agencies"].result
            /\ IF app_fanout_wanted(plan["agencies"].result)
               THEN pc' = "fanout" /\ fan' = StartedFan
               ELSE pc' = "after_agencies" /\ UNCHANGED fan
    /\ UNCHANGED <<envVars, parse, session, probe, dedupeVars, searchVars, plan, people, company_people, resp>>

\* app.py 512-513: the person search runs last, if selected.
AppPeopleStart ==
    /\ variant = "app"
    /\ pc = "after_agencies"
    /\ IF do_people(intent.search_type)
       THEN pc' = "people" /\ plan' = [plan EXCEPT !["people"] = StartedPlan]
       ELSE pc' = "respond" /\ UNCHANGED plan
    /\ UNCHANGED <<envVars, parse, session, probe, dedupeVars, searchVars, agencies, people, company_people,
                   resp, fan>>

\* app.py 513: find_people has returned.
AppPeopleDone ==
    /\ variant = "app"
    /\ pc = "people"
    /\ plan["people"].pc \in {"done", "raised"}
    /\ IF plan["people"].pc = "raised"
       THEN pc' = "failed" /\ UNCHANGED people
       ELSE pc' = "respond" /\ people' = plan["people"].result
    /\ UNCHANGED <<envVars, parse, session, probe, dedupeVars, searchVars, plan, agencies, company_people,
                   resp, fan>>

RunPages == {PagePeople, PageBad}

RunIntents ==
    { Intent(Icp1, Industry1, Region1, t, <<>>) : t \in {"agencies", "people", "both"} }

RunInit ==
    /\ variant \in Variants /\ web = RunPages /\ intent \in RunIntents
    /\ pc = "start" /\ agencies = <<>> /\ people = <<>> /\ company_people = <<>>
    /\ resp = "none"
    /\ DedupeIdle /\ SearchIdle /\ PlanIdle /\ FanIdle
    /\ ParseIdle /\ SessionIdle /\ ProbeIdle

RunNext ==
    \/ RunStart
    \/ \E b \in Branches : PlannerQuery(b)
    \/ \E b \in Branches : PlannerReturn(b)
    \/ RunJoin
    \/ FanoutStart
    \/ \E i \in 1..Len(fan.tasks) : FanoutTaskBegin(i)
    \/ \E i \in 1..Len(fan.tasks) : FanoutTask(i)
    \/ \E i \in 1..Len(fan.tasks) : AppFanoutTask(i)
    \/ FanoutReturn
    \/ RunFanoutDone
    \/ AppStart
    \/ AppAgenciesDone
    \/ AppPeopleStart
    \/ AppPeopleDone
    \/ Respond
    \/ RunFailed

SpecRun == RunInit /\ [][RunNext]_vars

(***************************************************************************)
(* Claims about the orchestrators                                          *)
(***************************************************************************)

ResultLists == <<agencies, people, company_people>>

AllOfKind(list, kind) ==
    \A i \in 1..Len(list) :
        IF kind = "company" THEN is_linkedin_company(list[i].url)
        ELSE is_linkedin_profile(list[i].url)

\* C1: for every combination of search-backend failures the orchestrator
\* returns a normal response: the request never ends in an exception or a
\* 500 answer.
C1_NeverFails == pc # "failed" /\ resp \notin {"500", "exception"}

\* C4 as stated: in either planner variant every company result is a
\* LinkedIn company page and every person result, the fan-out's included,
\* is a LinkedIn profile page.
C4_OnlyMatchingKinds ==
    /\ AllOfKind(agencies, "company")
    /\ AllOfKind(people, "profile")
    /\ AllOfKind(company_people, "profile")

\* C4: the planners and the fan-out of app.py return only results whose URL
\* the classifier of their kind accepts; those of services.py return every
\* hit of the search, and only a result to which find_agencies gave a
\* company name is known to be a company page.
C4_StrictVariantFilters ==
    /\ variant = "app" => C4_OnlyMatchingKinds
    /\ \A i \in 1..Len(agencies) :
           agencies[i].company # <<>> => is_linkedin_company(agencies[i].url)

C4_Witness ==
    /\ variant = "app" /\ resp = "returned"
    /\ agencies # <<>> /\ people # <<>> /\ company_people # <<>>
    /\ PagePeople \in web
    /\ \E i, j \in 1..Len(PagePeople) :
           /\ ~ is_linkedin_company(PagePeople[i].url)
           /\ ~ is_linkedin_profile(PagePeople[j].url)

FanoutActs ==
    \/ fan.pc = "idle" /\ fan'.pc # "idle"
    \/ fan'.asked # fan.asked

\* C10 as stated: the fan-out starts, and issues a query, only when the
\* company list is non-empty and both selected branches have finished.
C10_FanoutAfterBothBranches ==
    [][FanoutActs =>
          /\ agencies' # <<>>
          /\ \A b \in Branches : Selected(b) => plan[b].pc = "done"]_vars

\* C10: the fan-out starts, and issues a query, only when the company
\* search has finished with at least one result; in services.py the person
\* search has finished as well by then, in app.py it has not started yet.
C10_FanoutAfterCompanySearch ==
    [][FanoutActs =>
          /\ agencies' # <<>>
          /\ plan["agencies"].pc = "done"
          /\ variant = "backend" =>
                 \A b \in Branches : Selected(b) => plan[b].pc = "done"
          /\ variant = "app" => plan["people"].pc = "idle"]_vars

C10_Witness ==
    /\ variant = "backend" /\ intent.search_type = "both"
    /\ fan.asked # <<>>
    /\ plan["people"].pc = "done" /\ people # <<>>

(***************************************************************************)
(* The fan-out called with lists longer than its cap                       *)
(***************************************************************************)
MaxListLen == 7

CapNames ==
    <<"acme", "beta", "gamma", "delta", "epsilon", "zeta", "eta", "theta", "iota">>

\* k company pages as find_agencies returns them.
CapList(k) ==
    find_agencies_absorb(<<>>,
        [i \in 1..k |-> SearchResult(<<CapNames[i]>>, CompanyUrl(<<CapNames[i]>>), "")])

CapInputs ==
    UNION { {CapList(k), <<placeholder(Icp1)[1]>> \o CapList(k)} :
              k \in (MaxListLen - 2)..MaxListLen }

FanoutCapInit ==
    /\ variant \in Variants /\ web = {}
    /\ intent = Intent(Icp1, Industry1, Region1, "agencies", <<>>)
    /\ agencies \in CapInputs
    /\ fan = [IdleFan EXCEPT !.pc = "start", !.per_company = 1, !.faults = {FALSE}]
    /\ pc = "idle" /\ people = <<>> /\ company_people = <<>> /\ resp = "none"
    /\ DedupeIdle /\ SearchIdle /\ PlanIdle
    /\ ParseIdle /\ SessionIdle /\ ProbeIdle

SpecFanoutCap == FanoutCapInit /\ [][FanoutNext]_vars

\* The name a sub-search query is built from (services.py 274, app.py 443).
CompanyName(agency) ==
    IF agency.company # <<>> THEN agency.company ELSE parse_agency_name(agency.title)

\* C11: however long the list of companies, the fan-out issues at most 6
\* sub-search queries, none of them for a company after the sixth of the
\* list, and at no time are more than 6 sub-searches in flight.
C11_FanoutCappedAtSix ==
    /\ Len(fan.targets) <= 6
    /\ Len(fan.asked) <= 6
    /\ \A i \in 1..Len(agencies) : \A k \in 1..Len(fan.asked) :
           i > 6 => ~Contains(_q(CompanyName(agencies[i])), fan.asked[k].query)
    /\ Cardinality(InFlight(fan.tasks)) <= 6

\* The backend fan-out over seven company pages has returned: six queries
\* were sent, for the first six companies.
C11_Witness ==
    /\ variant = "backend"
    /\ Len(agencies) = 7
    /\ fan.pc = "done"
    /\ Len(fan.asked) = 6
    /\ \A i \in 1..6 : \E k \in 1..6 :
           Contains(_q(CompanyName(agencies[i])), fan.asked[k].query)

(***************************************************************************)
(* Which companies the backend fan-out queries                             *)
(***************************************************************************)

\* The companies the fan-out considers: the first six of the list.
Considered == 1..(IF Len(agencies) < 6 THEN Len(agencies) ELSE 6)

IsFallbackLink(agency) == Contains(FallbackMarker, agency.url)

\* The sub-search query of services.py 277 for a company.
FanoutQuery(agency) ==
    JoinStrings(<<SiteIn, _q(CompanyName(agency)), _q(intent.icp)>>)

QueriesFor(agency) ==
    Cardinality({k \in 1..Len(fan.asked) : fan.asked[k].query = FanoutQuery(agency)})

\* C12 as stated: the backend fan-out never issues a query for a company
\* whose URL is a fallback search link, never more than one for any
\* company, and once it has returned it has issued exactly one for every
\* considered company whose URL is not a fallback link.
C12_OneQueryPerNonFallback ==
    variant = "backend" =>
        \A i \in Considered :
            /\ IsFallbackLink(agencies[i]) => QueriesFor(agencies[i]) = 0
            /\ QueriesFor(agencies[i]) <= 1
            /\ (fan.pc = "done" /\ ~IsFallbackLink(agencies[i]))
                   => QueriesFor(agencies[i]) = 1

HasUsableName(agency) == CharLen(CompanyName(agency)) >= 2

\* C12: the backend fan-out issues exactly one query for every considered
\* company whose URL is not a fallback link and whose name (the company
\* field, else the parsed title) has at least two characters, and no query
\* for any other company.
C12_OneQueryPerEligible ==
    variant = "backend" =>
        \A i \in Considered :
            /\ (IsFallbackLink(agencies[i]) \/ ~HasUsableName(agencies[i]))
                   => QueriesFor(agencies[i]) = 0
            /\ QueriesFor(agencies[i]) <= 1
            /\ (fan.pc = "done" /\ ~IsFallbackLink(agencies[i])
                                /\ HasUsableName(agencies[i]))
                   => QueriesFor(agencies[i]) = 1

\* The backend fan-out has returned for a company page and a page whose
\* title is one character long: one query was sent.
C12_Witness ==
    /\ variant = "backend"
    /\ fan.pc = "done"
    /\ Len(agencies) = 2
    /\ \E i, j \in 1..2 :
          /\ ~IsFallbackLink(agencies[i]) /\ HasUsableName(agencies[i])
          /\ ~IsFallbackLink(agencies[j]) /\ ~HasUsableName(agencies[j])
    /\ Len(fan.asked) = 1

(***************************************************************************)
(* Branch selection                                                        *)
(***************************************************************************)

\* C13: with search_type 'agencies' no person-search query is issued and
\* the people list stays empty; with 'people' no company-search and no
\* fan-out query is issued and the companies and company_people lists stay
\* empty; with 'both' both branches have run when the request ends.
C13_BranchesFollowSearchType ==
    /\ intent.search_type = "agencies" =>
           /\ plan["people"].pc = "idle" /\ plan["people"].asked = <<>>
           /\ people = <<>>
    /\ intent.search_type = "people" =>
           /\ plan["agencies"].pc = "idle" /\ plan["agencies"].asked = <<>>
           /\ fan.pc = "idle" /\ fan.asked = <<>>
           /\ agencies = <<>> /\ company_people = <<>>
    /\ (intent.search_type = "both" /\ resp # "none") =>
           \A b \in Branches : plan[b].pc = "done" /\ plan[b].asked # <<>>

\* A request for companies only has been answered: the company search and
\* the fan-out have run, the person search has not.
C13_Witness ==
    /\ intent.search_type = "agencies"
    /\ resp \in {"200", "returned"}
    /\ plan["agencies"].asked # <<>> /\ agencies # <<>>
    /\ fan.asked # <<>> /\ company_people # <<>>

(***************************************************************************)
(* Intent parser (services.py 16-134, app.py 256-331)                      *)
(*                                                                         *)
(* Prompts and the fields of the intent are strings; _regex_parse looks at *)
(* the characters of the lower-cased prompt.                               *)
(***************************************************************************)

\* A string as the sequence of its characters, and back.
Chars(s) == [i \in 1..Len(s) |-> SubSeq(s, i, i)]

RECURSIVE FromChars(_)
FromChars(cs) == IF cs = <<>> THEN "" ELSE Head(cs) \o FromChars(Tail(cs))

AsciiUpper == Chars("ABCDEFGHIJKLMNOPQRSTUVWXYZ")
AsciiLower == Chars("abcdefghijklmnopqrstuvwxyz")

\* str.lower()
lower_char(c) ==
    IF \E i \in 1..26 : AsciiUpper[i] = c
    THEN AsciiLower[CHOOSE i \in 1..26 : AsciiUpper[i] = c]
    ELSE c

str_lower(s) == [i \in 1..Len(s) |-> lower_char(SubSeq(s, i, i))]

\* sep.join(strs)
RECURSIVE str_join(_, _)
str_join(sep, strs) ==
    IF strs = <<>> THEN ""
    ELSE IF Len(strs) = 1 THEN Head(strs)
    ELSE Head(strs) \o sep \o str_join(sep, Tail(strs))

\* `kw in low`
kw_in(kw, low) == Contains(Chars(kw), low)

\* \s and \w of the re module, and the characters str.split() splits on.
WsChars == {" ", "\t", "\n"}
WordChars == Range(AsciiLower) \cup Range(AsciiUpper) \cup Range(Chars("0123456789_"))

\* The first index from i on whose character is not in S.
RECURSIVE SkipWhile(_, _, _)
SkipWhile(s, i, S) ==
    IF i <= Len(s) /\ s[i] \in S THEN SkipWhile(s, i + 1, S) ELSE i

\* services.py 17-25, app.py 256-264
ROLE_KW ==
    <<
       "ceo", "cto", "cfo", "coo", "cmo", "vp", "svp", "evp", "director",
       "head", "manager", "lead", "founder", "co-founder", "partner",
       "principal", "strategist", "consultant", "analyst", "coordinator",
       "specialist", "executive", "marketing", "sales", "growth", "product",
       "engineering", "finance", "hr", "operations", "design", "data",
       "business development", "account executive", "sdr", "bdr" >>

\* services.py 27-40, app.py 266-279 (a dict: its items in insertion order)
INDUSTRY_KW ==
    <<
       [canon |-> "healthcare",
        syns |-> <<"healthcare", "health", "medical", "pharma", "biotech", "healthtech">>],
       [canon |-> "fintech",
        syns |-> <<"fintech", "finance", "banking", "payments", "defi", "neobank">>],
       [canon |-> "saas",
        syns |-> <<"saas", "software", "b2b", "enterprise software">>],
       [canon |-> "ecommerce",
        syns |-> <<"ecommerce", "e-commerce", "retail", "dtc", "shopify">>],
       [canon |-> "ai",
        syns |-> <<"ai", "artificial intelligence", "machine learning", "ml", "deep learning", "llm">>],
       [canon |-> "crypto",
        syns |-> <<"crypto", "blockchain", "web3", "nft">>],
       [canon |-> "edtech",
        syns |-> <<"edtech", "education", "learning">>],
       [canon |-> "real estate",
        syns |-> <<"real estate", "proptech", "property">>],
       [canon |-> "cybersecurity",
        syns |-> <<"cybersecurity", "security", "infosec">>],
       [canon |-> "cleantech",
        syns |-> <<"cleantech", "climate", "sustainability", "green">>],
       [canon |-> "martech",
        syns |-> <<"martech", "adtech", "advertising">>],
       [canon |-> "logistics",
        syns |-> <<"logistics", "supply chain", "shipping", "freight">>] >>

\* services.py 42-54, app.py 281-293
REGION_KW ==
    <<
       [canon |-> "United States",
        syns |-> <<"us", "usa", "united states", "america">>],
       [canon |-> "California",
        syns |-> <<"california", "ca", "sf", "san francisco", "bay area", "la", "los angeles", "silicon valley">>],
       [canon |-> "New York",
        syns |-> <<"new york", "ny", "nyc", "manhattan">>],
       [canon |-> "Texas",
        syns |-> <<"texas", "tx", "austin", "dallas", "houston">>],
       [canon |-> "Europe",
        syns |-> <<"europe", "eu", "european">>],
       [canon |-> "United Kingdom",
        syns |-> <<"uk", "united kingdom", "london", "england", "britain">>],
       [canon |-> "Canada",
        syns |-> <<"canada", "toronto", "vancouver">>],
       [canon |-> "Australia",
        syns |-> <<"australia", "sydney", "melbourne">>],
       [canon |-> "India",
        syns |-> <<"india", "bangalore", "mumbai", "delhi">>],
       [canon |-> "Germany",
        syns |-> <<"germany", "berlin", "munich">>],
       [canon |-> "Remote",
        syns |-> <<"remote", "worldwide", "global", "anywhere">>] >>

\* services.py 59-60: found = [kw for kw in ROLE_KW if kw in low];
\* " ".join(dict.fromkeys(found[:4])) if found else ""
role_icp(low) ==
    str_join(" ", Take(SelectSeq(ROLE_KW, LAMBDA kw : kw_in(kw, low)), 4))

\* services.py 63-66, 73-76: the canonical name of the first table entry one
\* of whose synonyms occurs in low, "" when there is none.
first_canon(table, low) ==
    LET hit(e) == \E k \in 1..Len(e.syns) : kw_in(e.syns[k], low)
        hits == SelectSeq(table, hit)
    IN  IF hits = <<>> THEN "" ELSE hits[1].canon

IndustryPrefixes == <<"at", "in", "for">>
IndustrySuffixes == <<"companies", "startups", "agencies", "firms">>

SuffixAt(low, i) ==
    \E k \in 1..Len(IndustrySuffixes) : StartsAt(Chars(IndustrySuffixes[k]), low, i)

\* services.py 68: the regular expression
\*   \b(?:at|in|for)\s+(\w+(?:\s+\w+)?)\s+(?:companies|startups|agencies|firms)
\* tried at index i of low: <<a, b>> with low[a..b] its group 1, <<>> when
\* it does not match there.  The optional second word is tried first.
industry_match_at(low, i) ==
    IF ~(i = 1 \/ low[i - 1] \notin WordChars) THEN <<>>
    ELSE LET ps == SelectSeq(IndustryPrefixes, LAMBDA p : StartsAt(Chars(p), low, i))
         IN  IF ps = <<>> THEN <<>>
             ELSE LET s1 == i + Len(ps[1])
                      w1 == SkipWhile(low, s1, WsChars)
                      e1 == SkipWhile(low, w1, WordChars)
                      s2 == SkipWhile(low, e1, WsChars)
                      e2 == SkipWhile(low, s2, WordChars)
                      s3 == SkipWhile(low, e2, WsChars)
                 IN  IF w1 = s1 \/ e1 = w1 \/ s2 = e1 THEN <<>>
                     ELSE IF e2 > s2 /\ s3 > e2 /\ SuffixAt(low, s3) THEN <<w1, e2 - 1>>
                     ELSE IF SuffixAt(low, s2) THEN <<w1, e1 - 1>>
                     ELSE <<>>

\* services.py 68-70: re.search takes the leftmost match; "" without one.
industry_from_regex(low) ==
    LET at == {i \in 1..Len(low) : industry_match_at(low, i) # <<>>}
    IN  IF at = {} THEN ""
        ELSE LET i == CHOOSE a \in at : \A b \in at : a <= b
                 g == industry_match_at(low, i)
             IN  FromChars(SubSeq(low, g[1], g[2]))

\* low.split(): the maximal runs of characters that are not white space.
RECURSIVE split_from(_, _)
split_from(low, i) ==
    LET a == SkipWhile(low, i, WsChars)
        b == SkipWhile(low, a, Range(low) \ WsChars)
    IN  IF a > Len(low) THEN {}
        ELSE {FromChars(SubSeq(low, a, b - 1))} \cup split_from(low, b)

str_split(low) == split_from(low, 1)

\* services.py 78-80, app.py 317-319
agency_words ==
    {"agency", "agencies", "company", "companies", "firm", "firms", "startup", "startups"}
people_words ==
    {"people", "person", "profile", "profiles", "employee", "employees",
     "leader", "leaders", "founder", "founders", "who", "someone"}

\* The heuristic with the search type a constant.
infer_search_type_both(tokens) == "both"

\* services.py 81-84, app.py 320-323
infer_search_type(tokens) ==
    LET has_agency == agency_words \cap tokens # {}
        has_people == people_words \cap tokens # {}
    IN  IF has_agency /\ ~has_people THEN "agencies"
        ELSE IF has_people /\ ~has_agency THEN "people"
        ELSE "both"

ParsedIntent(icp, industry, region, search_type, raw_prompt, extra_keywords) ==
    [icp |-> icp, industry |-> industry, region |-> region,
     search_type |-> search_type, raw_prompt |-> raw_prompt,
     extra_keywords |-> extra_keywords]

\* `a or b` for strings
str_or(a, b) == IF a # "" THEN a ELSE b

\* services.py 62-70
detect_industry(low) ==
    LET industry == first_canon(INDUSTRY_KW, low)
    IN  IF industry # "" THEN industry ELSE industry_from_regex(low)

\* services.py 56-93
_regex_parse(prompt) ==
    LET low == str_lower(prompt)
    IN  ParsedIntent(str_or(role_icp(low), prompt),
                     str_or(detect_industry(low), "technology"),
                     str_or(first_canon(REGION_KW, low), "United States"),
                     infer_search_type(str_split(low)),
                     prompt, <<>>)

\* app.py 296-331: the same heuristic; the icp falls back to "technology".
app_parse_user_prompt(prompt) ==
    LET low == str_lower(prompt)
    IN  ParsedIntent(str_or(role_icp(low), "technology"),
                     str_or(detect_industry(low), "technology"),
                     str_or(first_canon(REGION_KW, low), "United States"),
                     infer_search_type(str_split(low)),
                     prompt, <<>>)

(***************************************************************************)
(* The classifier path of parse_user_prompt (services.py 95-134)           *)
(*                                                                         *)
(* The classifier's answer is a sequence of pieces of text: a code fence,  *)
(* the word json, a white-space character, prose, or a JSON document.      *)
(***************************************************************************)
\* The piece that stands for a line of three backquotes.
Fence == "FENCE"

\* JSON values: a string, null, or a list of strings.
JStr(s) == [t |-> "str", s |-> s, l |-> <<>>]
JNull == [t |-> "null", s |-> "", l |-> <<>>]
JList(l) == [t |-> "list", s |-> "", l |-> l]

DocFull ==
    "{\"icp\": \"CTO\", \"industry\": \"saas\", \"region\": \"Europe\", \"search_type\": \"people\", \"extra_keywords\": [\"b2b\"]}"
DocEmpty == "{}"
DocFalsy ==
    "{\"icp\": \"\", \"industry\": null, \"search_type\": \"\", \"extra_keywords\": []}"
DocOddType == "{\"icp\": \"CTO\", \"search_type\": \"companies\"}"
DocBadField == "{\"icp\": \"CTO\", \"extra_keywords\": \"b2b\"}"
DocBadType == "{\"icp\": \"CTO\", \"search_type\": [\"people\"]}"
DocList == "[\"CTO\", \"saas\"]"
DocCut == "{\"icp\": \"CTO\", "
Prose == "Here is the JSON:"

\* What json.loads gives for the documents above; any other text is not a
\* JSON document and makes it raise.
JsonDocs ==
    << [text |-> DocFull, isdict |-> TRUE,
        d |-> [k \in {"icp", "industry", "region", "search_type", "extra_keywords"} |->
                 CASE k = "icp" -> JStr("CTO")
                   [] k = "industry" -> JStr("saas")
                   [] k = "region" -> JStr("Europe")
                   [] k = "search_type" -> JStr("people")
                   [] OTHER -> JList(<<"b2b">>)]],
       [text |-> DocEmpty, isdict |-> TRUE, d |-> [k \in {} |-> JNull]],
       [text |-> DocFalsy, isdict |-> TRUE,
        d |-> [k \in {"icp", "industry", "search_type", "extra_keywords"} |->
                 CASE k = "icp" -> JStr("")
                   [] k = "industry" -> JNull
                   [] k = "search_type" -> JStr("")
                   [] OTHER -> JList(<<>>)]],
       [text |-> DocOddType, isdict |-> TRUE,
        d |-> [k \in {"icp", "search_type"} |->
                 IF k = "icp" THEN JStr("CTO") ELSE JStr("companies")]],
       [text |-> DocBadField, isdict |-> TRUE,
        d |-> [k \in {"icp", "extra_keywords"} |->
                 IF k = "icp" THEN JStr("CTO") ELSE JStr("b2b")]],
       [text |-> DocBadType, isdict |-> TRUE,
        d |-> [k \in {"icp", "search_type"} |->
                 IF k = "icp" THEN JStr("CTO") ELSE JList(<<"people">>)]],
       [text |-> DocList, isdict |-> FALSE, d |-> [k \in {} |-> JNull]] >>

\* services.py 123: json.loads(raw)
json_loads(text) ==
    LET docs == SelectSeq(JsonDocs, LAMBDA doc : doc.text = text)
    IN  IF docs = <<>> THEN [ok |-> FALSE, isdict |-> FALSE, d |-> [k \in {} |-> JNull]]
        ELSE [ok |-> TRUE, isdict |-> docs[1].isdict, d |-> docs[1].d]

\* str.strip() on a sequence of pieces
RECURSIVE strip_ws(_)
strip_ws(t) ==
    IF t = <<>> THEN <<>>
    ELSE IF Head(t) \in WsChars THEN strip_ws(Tail(t))
    ELSE IF t[Len(t)] \in WsChars THEN strip_ws(SubSeq(t, 1, Len(t) - 1))
    ELSE t

\* The answer taken as it is, fences included.
fence_sub_keep(t, i) == SubSeq(t, i, Len(t))

\* services.py 122: re.sub(r"^```(?:json)?\s*|\s*```$", "", raw, flags=re.MULTILINE),
\* from piece i on.  ^ is the start of a line, $ the end of one.
RECURSIVE fence_sub(_, _)
fence_sub(t, i) ==
    IF i > Len(t) THEN <<>>
    ELSE IF (i = 1 \/ t[i - 1] = "\n") /\ t[i] = Fence
    THEN LET j == IF i + 1 <= Len(t) /\ t[i + 1] = "json" THEN i + 2 ELSE i + 1
         IN  fence_sub(t, SkipWhile(t, j, WsChars))
    ELSE LET j == SkipWhile(t, i, WsChars)
         IN  IF j <= Len(t) /\ t[j] = Fence /\ (j = Len(t) \/ t[j + 1] = "\n")
             THEN fence_sub(t, j + 1)
             ELSE <<t[i]>> \o fence_sub(t, i + 1)

\* data.get(key)
dict_get(d, key) == IF key \in DOMAIN d THEN d[key] ELSE JNull

\* `value or default`: None, "" and [] are false.
j_or(v, default) ==
    IF v.t = "null" \/ (v.t = "str" /\ v.s = "") \/ (v.t = "list" /\ v.l = <<>>)
    THEN default ELSE v

NoResult == [ok |-> FALSE, result |-> NoParsed]

\* The intent built field by field: a value of the wrong type is replaced
\* by the default instead of being refused.
build_intent_lenient(prompt, d) ==
    LET str_of(key, default) ==
            IF j_or(dict_get(d, key), JStr(default)).t = "str"
            THEN j_or(dict_get(d, key), JStr(default)).s ELSE default
        extra == j_or(dict_get(d, "extra_keywords"), JList(<<>>))
    IN  [ok |-> TRUE,
         result |-> ParsedIntent(str_of("icp", prompt), str_of("industry", "technology"),
                                 str_of("region", "United States"),
                                 str_of("search_type", "both"), prompt,
                                 IF extra.t = "list" THEN extra.l ELSE <<>>)]

\* services.py 124-131: ParsedIntent(icp=data.get("icp") or prompt, ...); the
\* model (models.py 13-19) refuses a value that is not a str, or not a list
\* for extra_keywords.
build_intent(prompt, d) ==
    LET icp == j_or(dict_get(d, "icp"), JStr(prompt))
        industry == j_or(dict_get(d, "industry"), JStr("technology"))
        region == j_or(dict_get(d, "region"), JStr("United States"))
        search_type == j_or(dict_get(d, "search_type"), JStr("both"))
        extra == j_or(dict_get(d, "extra_keywords"), JList(<<>>))
    IN  IF /\ icp.t = "str" /\ industry.t = "str" /\ region.t = "str"
           /\ search_type.t = "str" /\ extra.t = "list"
        THEN [ok |-> TRUE,
              result |-> ParsedIntent(icp.s, industry.s, region.s, search_type.s,
                                      prompt, extra.l)]
        ELSE NoResult

\* services.py 98-131, the body of the try: ok is FALSE when a step raises.
\* llm.kind: "error" (the call raises), "nocontent" (message.content is
\* None), "ok".
classifier_parse(prompt, llm) ==
    IF llm.kind # "ok" THEN NoResult
    ELSE LET raw == strip_ws(fence_sub(strip_ws(llm.content), 1))
             data == json_loads(str_join("", raw))
         IN  IF ~data.ok \/ ~data.isdict THEN NoResult
             ELSE build_intent(prompt, data.d)

\* services.py 95-134
parse_user_prompt(prompt, client, llm) ==
    LET tried == IF client THEN classifier_parse(prompt, llm) ELSE NoResult
    IN  IF tried.ok THEN tried.result ELSE _regex_parse(prompt)

(***************************************************************************)
(* parse_user_prompt called with bounded prompts and classifier answers    *)
(***************************************************************************)
MaxPromptPieces == 2

PromptPieces ==
    {"CEO", "who", "Founders", "London", "agencies,", "in robotics companies"}

Prompts ==
    { str_join(" ", ps) :
        ps \in UNION { [1..k -> PromptPieces] : k \in 0..MaxPromptPieces } }

LlmAnswers ==
    { <<DocFull>>,
      <<Fence, "json", "\n", DocFull, "\n", Fence>>,
      <<" ", Fence, "\n", DocFalsy, "\n", Fence, "\n">>,
      <<Prose, "\n", DocFull>>,
      <<DocEmpty>>, <<DocOddType>>, <<DocBadField>>, <<DocBadType>>, <<DocList>>,
      <<DocCut>>, <<>> }

LlmOutcomes ==
    {[kind |-> k, content |-> <<>>] : k \in {"error", "nocontent"}}
        \cup {[kind |-> "ok", content |-> c] : c \in LlmAnswers}

\* services.py 12-13: _groq_client is None without GROQ_API_KEY; app.py has
\* no classifier.
ParseInit ==
    /\ variant \in Variants /\ web = {} /\ intent = NoIntent
    /\ \E p \in Prompts, client \in BOOLEAN, llm \in LlmOutcomes :
         /\ client => variant = "backend"
         /\ ~client => llm = NoLlm
         /\ parse = [IdleParse EXCEPT !.prompt = p, !.client = client, !.llm = llm]
    /\ DedupeIdle /\ SearchIdle /\ PlanIdle /\ FanIdle /\ RunIdle /\ SessionIdle
    /\ ProbeIdle

\* services.py 302: parsed = parse_user_prompt(query)
ParseCall ==
    /\ variant = "backend"
    /\ ~parse.done
    /\ parse' = [parse EXCEPT !.done = TRUE,
                              !.result = parse_user_prompt(parse.prompt, parse.client,
                                                           parse.llm)]
    /\ UNCHANGED <<envVars, session, probe, dedupeVars, searchVars, plan, runVars, fan>>

\* app.py 503: parsed = parse_user_prompt(prompt)
AppParseCall ==
    /\ variant = "app"
    /\ ~parse.done
    /\ parse' = [parse EXCEPT !.done = TRUE,
                              !.result = app_parse_user_prompt(parse.prompt)]
    /\ UNCHANGED <<envVars, session, probe, dedupeVars, searchVars, plan, runVars, fan>>

ParseNext == ParseCall \/ AppParseCall

SpecParse == ParseInit /\ [][ParseNext]_vars

\* C14: whatever the prompt and whichever path is taken, the parsed intent
\* has a non-empty icp, industry and region, and for the empty prompt the
\* industry is 'technology' and the region 'United States'.
C14_FieldsNeverEmpty ==
    parse.done =>
        /\ parse.result.icp # ""
        /\ parse.result.industry # ""
        /\ parse.result.region # ""
        /\ (parse.prompt = "" /\ ~parse.client) =>
               /\ parse.result.industry = "technology"
               /\ parse.result.region = "United States"

\* C15: after parsing, search_type is one of 'agencies', 'people', 'both',
\* so that at least one search branch is selected.
C15_SearchTypeInRange ==
    parse.done =>
        /\ parse.result.search_type \in {"agencies", "people", "both"}
        /\ do_agencies(parse.result.search_type) \/ do_people(parse.result.search_type)

\* The answers that hold one JSON document, bare or inside a code fence.
AnswerDocs(content) ==
    { doc \in Range(content) :
        strip_ws(content) \in { <<doc>>, <<Fence, "\n", doc, "\n", Fence>>,
                                <<Fence, "json", "\n", doc, "\n", Fence>> } }

\* The value a key of the document is to give: false values and missing
\* keys give the default.
Given(d, key) ==
    IF key \in DOMAIN d /\ d[key] \notin {JNull, JStr(""), JList(<<>>)} THEN d[key]
    ELSE IF key = "extra_keywords" THEN JList(<<>>)
    ELSE JStr(CASE key = "icp" -> parse.prompt
                [] key = "industry" -> "technology"
                [] key = "region" -> "United States"
                [] OTHER -> "both")

StrKeys == {"icp", "industry", "region", "search_type"}

\* The classifier path succeeds: the call returns text that is one JSON
\* object whose values have the types of the intent's fields.
ClassifierUsable ==
    /\ parse.client /\ parse.llm.kind = "ok"
    /\ \E doc \in AnswerDocs(parse.llm.content) :
         \E k \in 1..Len(JsonDocs) :
            /\ JsonDocs[k].text = doc /\ JsonDocs[k].isdict
            /\ \A key \in StrKeys : Given(JsonDocs[k].d, key).t = "str"
            /\ Given(JsonDocs[k].d, "extra_keywords").t = "list"

\* C16: parse_user_prompt does not raise; when a step of the classifier
\* path fails its result is the heuristic parser's result in every field,
\* and otherwise every field is the classifier's value or the default of a
\* missing key.
C16_FallbackIsWhole ==
    (parse.done /\ variant = "backend") =>
        /\ ~parse.raised
        /\ ~ClassifierUsable => parse.result = _regex_parse(parse.prompt)
        /\ ClassifierUsable =>
             \E doc \in AnswerDocs(parse.llm.content) : \E k \in 1..Len(JsonDocs) :
                /\ JsonDocs[k].text = doc
                /\ \A key \in StrKeys :
                       parse.result[key] = Given(JsonDocs[k].d, key).s
                /\ parse.result.extra_keywords = Given(JsonDocs[k].d, "extra_keywords").l
                /\ parse.result.raw_prompt = parse.prompt

\* The classifier answered with an object whose search_type is a list: the
\* result is the heuristic one, icp included.
C16_Witness ==
    /\ parse.done /\ parse.client
    /\ parse.llm = [kind |-> "ok", content |-> <<DocBadType>>]
    /\ parse.prompt = "Founders London"
    /\ parse.result = _regex_parse(parse.prompt)
    /\ parse.result.icp = "founder"
    /\ parse.result.region = "United Kingdom"

\* w is one of the white-space separated words of low.
HasToken(low, w) ==
    \E i \in 1..Len(low) :
        /\ StartsAt(Chars(w), low, i)
        /\ i = 1 \/ low[i - 1] \in WsChars
        /\ i + Len(w) > Len(low) \/ low[i + Len(w)] \in WsChars

\* C17: on the heuristic path a prompt with an agency-word and no
\* people-word among its white-space separated lower-cased words gives
\* 'agencies', one with a people-word and no agency-word gives 'people',
\* and one with both kinds or neither gives 'both'.
C17_SearchTypeInference ==
    (parse.done /\ ~parse.client) =>
        LET low == str_lower(parse.prompt)
            has_agency == \E w \in agency_words : HasToken(low, w)
            has_people == \E w \in people_words : HasToken(low, w)
        IN  parse.result.search_type =
                IF has_agency /\ ~has_people THEN "agencies"
                ELSE IF has_people /\ ~has_agency THEN "people"
                ELSE "both"

\* 'companies' is a word of the prompt and no people-word is.
C17_Witness ==
    /\ parse.done /\ ~parse.client
    /\ parse.prompt = "CEO in robotics companies"
    /\ parse.result.search_type = "agencies"

(***************************************************************************)
(* parse_agency_name applied to bounded titles                             *)
(***************************************************************************)
MaxTitleLen == 4

TitleTokens == {"Acme", " ", "|", "-", "EMDASH"}

Titles == UNION { [1..k -> TitleTokens] : k \in 0..MaxTitleLen }

AgencyNameInit ==
    /\ variant \in Variants /\ web = {} /\ intent = NoIntent
    /\ \E t \in Titles : probe = [IdleProbe EXCEPT !.fn = "parse_agency_name", !.arg = t]
    /\ DedupeIdle /\ SearchIdle /\ PlanIdle /\ FanIdle /\ RunIdle /\ SessionIdle
    /\ ParseIdle

\* services.py 274, app.py 443: parse_agency_name(agency.title)
AgencyNameCall ==
    /\ probe.fn = "parse_agency_name"
    /\ ~probe.done
    /\ probe' = [probe EXCEPT !.done = TRUE, !.out = parse_agency_name(probe.arg)]
    /\ UNCHANGED <<envVars, parse, session, dedupeVars, searchVars, plan, runVars, fan>>

SpecAgencyName == AgencyNameInit /\ [][AgencyNameCall]_vars

\* The separators in the order of their priority.
SeparatorPriority == <<"|", "MIDDOT", "EMDASH", "-">>

\* s without the blanks at its two ends.
Trimmed(s) ==
    LET solid == {i \in 1..Len(s) : s[i] # " "}
    IN  IF solid = {} THEN <<>>
        ELSE SubSeq(s, CHOOSE a \in solid : \A b \in solid : a <= b,
                       CHOOSE a \in solid : \A b \in solid : a >= b)

\* C18: parse_agency_name takes the first separator of the priority list
\* ('|', middle dot, em dash, hyphen) that occurs in the title, splits the
\* title at that separator's first occurrence and returns the trimmed left
\* side; without a separator, or with a left side that is empty after
\* trimming, it returns the whole trimmed title.
C18_AgencyNameSplit ==
    probe.done =>
        LET title == probe.arg
            present == {k \in 1..Len(SeparatorPriority) :
                          \E i \in 1..Len(title) : title[i] = SeparatorPriority[k]}
        IN  IF present = {} THEN probe.out = Trimmed(title)
            ELSE LET sep == SeparatorPriority[CHOOSE k \in present :
                                                 \A m \in present : k <= m]
                     at == CHOOSE i \in 1..Len(title) :
                              title[i] = sep /\ \A j \in 1..(i - 1) : title[j] # sep
                     left == Trimmed(SubSeq(title, 1, at - 1))
                 IN  probe.out = IF left # <<>> THEN left ELSE Trimmed(title)

\* 'Acme - | ' holds a hyphen before the bar: the title is split at the bar.
C18_Witness ==
    /\ probe.done
    /\ probe.arg = <<"Acme", " ", "-", "|">>
    /\ probe.out = <<"Acme", " ", "-">>

(***************************************************************************)
(* is_linkedin_company and is_linkedin_profile applied to URLs             *)
(***************************************************************************)
UrlHosts == {<<"www.", "linkedin.com">>, <<"LinkedIn.com">>, <<"example.com">>}

UrlPaths ==
    { <<>>,
      <<"/", "company", "/", "acme", "/">>,
      <<"/", "Company", "/", "acme">>,
      <<"/", "company">>,
      <<"/", "in", "/", "jane">>,
      <<"/", "In", "/", "jane", "/">>,
      <<"/", "search", "/", "results", "/">> }

\* No query, a plain one, and queries that carry another address.
UrlQueries ==
    { <<>>,
      <<"?", "trk=", "1">>,
      <<"?", "url=", "https://", "linkedin.com", "/", "in", "/", "jane">>,
      <<"?", "url=", "https://", "linkedin.com", "/", "company", "/", "acme">> }

Urls == { <<"https://">> \o h \o p \o q : h \in UrlHosts, p \in UrlPaths, q \in UrlQueries }

ClassifyInit ==
    /\ variant \in Variants /\ web = {} /\ intent = NoIntent
    /\ \E u \in Urls : probe = [IdleProbe EXCEPT !.fn = "classify", !.arg = u]
    /\ DedupeIdle /\ SearchIdle /\ PlanIdle /\ FanIdle /\ RunIdle /\ SessionIdle
    /\ ParseIdle

\* services.py 252, 280; app.py 420, 436, 448: the two checks on result.url
ClassifyCall ==
    /\ probe.fn = "classify"
    /\ ~probe.done
    /\ probe' = [probe EXCEPT !.done = TRUE,
                              !.out = [company |-> is_linkedin_company(probe.arg),
                                       profile |-> is_linkedin_profile(probe.arg)]]
    /\ UNCHANGED <<envVars, parse, session, dedupeVars, searchVars, plan, runVars, fan>>

SpecClassify == ClassifyInit /\ [][ClassifyCall]_vars

\* The parts of an address: the host runs from the scheme to the first "/" or
\* "?", the path from there to the "?".
FirstOf(toks, url) ==
    LET at == {i \in 2..Len(url) : url[i] \in toks}
    IN  IF at = {} THEN Len(url) + 1 ELSE CHOOSE i \in at : \A j \in at : i <= j

UrlHost(url) == SubSeq(url, 2, FirstOf({"/", "?"}, url) - 1)

UrlPath(url) == SubSeq(url, FirstOf({"/", "?"}, url), FirstOf({"?"}, url) - 1)

OnLinkedIn(url) == Lower(UrlHost(url)) \in {<<"linkedin.com">>, <<"www.", "linkedin.com">>}

CompanyPage(url) == OnLinkedIn(url) /\ Contains(<<"/", "company", "/">>, Lower(UrlPath(url)))

ProfilePage(url) == OnLinkedIn(url) /\ Contains(<<"/", "in", "/">>, Lower(UrlPath(url)))

\* C19: the company classifier accepts a URL exactly when its path holds the
\* company-page marker (in any case) and the profile classifier exactly when
\* its path holds the profile-page marker; a company-page URL is rejected by
\* the profile classifier, a profile-page URL by the company classifier, and
\* a URL of another site by both.
C19_ClassifiersExact ==
    (probe.fn = "classify" /\ probe.done) =>
        LET url == probe.arg
        IN  /\ probe.out.company <=> CompanyPage(url)
            /\ probe.out.profile <=> ProfilePage(url)
            /\ CompanyPage(url) => ~probe.out.profile
            /\ ProfilePage(url) => ~probe.out.company
            /\ ~OnLinkedIn(url) => (~probe.out.company /\ ~probe.out.profile)

(***************************************************************************)
(* The chat session of the app (app.py 530-533, 582-631)                   *)
(***************************************************************************)
MaxTurns == 3

SessionPrompts == {"CTOs at fintech startups", "marketing agencies in Berlin"}

Jane == SearchResult(<<"Jane">>, <<"https://", "linkedin.com", "/", "in", "/", "jane">>, "cto")
JaneAgain == SearchResult(<<"Jane", " ", "Doe">>, <<"https://", "linkedin.com", "/", "in", "/", "jane", "/">>, "")
Sam == SearchResult(<<"Sam">>, <<"https://", "linkedin.com", "/", "in", "/", "sam">>, "")

\* app.py 516: values of agencies + people + company_people.
SearchReturns ==
    { <<>>, <<Jane>>, <<JaneAgain, Sam>>, <<Sam, Jane>>, <<Jane, Jane>> }

\* The list left holding only what the last search returned.
session_replace(all_results, returned) == returned

\* app.py 521: st.session_state.all_results.extend(all_results)
session_extend(all_results, returned) == all_results \o returned

\* app.py 477-497: the answer, put down as the number of rows it reports.
build_assistant_markdown(returned) == "found " \o ToString(Len(returned))

\* app.py 604-611: the footer of one script run.
Footer(messages, all_results) ==
    IF all_results # <<>> /\ messages # <<>>
    THEN [shown |-> TRUE, rows |-> dedupe_by_url(all_results)]
    ELSE NoExport

SessionInit ==
    /\ variant = "app" /\ web = {} /\ intent = NoIntent
    /\ SessionIdle
    /\ DedupeIdle /\ SearchIdle /\ PlanIdle /\ FanIdle /\ RunIdle /\ ParseIdle
    /\ ProbeIdle

\* app.py 582-598: one prompt; the script run that follows st.rerun() draws
\* the footer.
SessionTurn(prompt, returned) ==
    /\ Len(session.messages) + 2 <= 2 * MaxTurns
    /\ LET all_results == session_extend(session.all_results, returned)
           messages == session.messages
                         \o << [role |-> "user", content |-> prompt],
                               [role |-> "assistant",
                                content |-> build_assistant_markdown(returned)] >>
       IN  session' = [messages |-> messages,
                       all_results |-> all_results,
                       export |-> Footer(messages, all_results),
                       since_clear |-> Append(session.since_clear, returned)]
    /\ UNCHANGED <<envVars, parse, probe, dedupeVars, searchVars, plan, runVars, fan>>

\* app.py 627-631: the button is drawn with the footer only.
ClearChat ==
    /\ session.export.shown
    /\ session' = [messages |-> <<>>, all_results |-> <<>>,
                   export |-> Footer(<<>>, <<>>), since_clear |-> <<>>]
    /\ UNCHANGED <<envVars, parse, probe, dedupeVars, searchVars, plan, runVars, fan>>

SessionNext ==
    \/ \E p \in SessionPrompts, r \in SearchReturns : SessionTurn(p, r)
    \/ ClearChat

SpecSession == SessionInit /\ [][SessionNext]_vars

RECURSIVE Flatten(_)
Flatten(lists) == IF lists = <<>> THEN <<>> ELSE Head(lists) \o Flatten(Tail(lists))

\* The entries of s whose address key no earlier entry has, in their order.
RECURSIVE FirstSeenFrom(_, _)
FirstSeenFrom(s, i) ==
    IF i > Len(s) THEN <<>>
    ELSE IF \E j \in 1..(i - 1) : url_key(s[j].url) = url_key(s[i].url)
         THEN FirstSeenFrom(s, i + 1)
         ELSE <<s[i]>> \o FirstSeenFrom(s, i + 1)

IsPrefix(a, b) == Len(a) <= Len(b) /\ SubSeq(b, 1, Len(a)) = a

\* C20: in one session the exported rows are always the concatenation of what
\* the searches returned since the last Clear Chat with later duplicates of
\* an address removed (nothing is exported while that is empty); a search
\* keeps the earlier turns of the chat history and adds its own; Clear Chat
\* empties the chat history and the accumulated results.
C20_SessionExport ==
    /\ [](session.export.rows = FirstSeenFrom(Flatten(session.since_clear), 1))
    /\ [](session.export.shown <=> session.export.rows # <<>>)
    /\ [][ /\ Len(session'.messages) > Len(session.messages)
              => /\ IsPrefix(session.messages, session'.messages)
                 /\ Len(session'.messages) = Len(session.messages) + 2
           /\ Len(session'.messages) < Len(session.messages)
              => (session'.messages = <<>> /\ session'.all_results = <<>>
                  /\ ~session'.export.shown) ]_vars

\* Two searches since the last clear, the second returning an address the
\* first had already returned: fewer rows are exported than were accumulated.
C20_Witness ==
    /\ Len(session.since_clear) = 2
    /\ session.since_clear[1] = <<Jane>>
    /\ session.since_clear[2] = <<JaneAgain, Sam>>
    /\ session.export.shown
    /\ session.export.rows = <<Jane, Sam>>
    /\ Len(session.messages) = 4

(***************************************************************************)
(* Claims on the planners' early stop and request size                     *)
(***************************************************************************)

\* The canonical keys of the results of the planner's kind among hits.
DistinctMatches(b, hits) ==
    {CanonicalKey(hits[i].url) : i \in {k \in 1..Len(hits) : OfKind(b, hits[k].url)}}

\* C21: a planner skips remaining tiers only when the matches collected so
\* far have at least cap distinct canonical URL keys, so a returned list
\* shorter than the cap means that every tier was queried.
C21_StopsOnlyOnDistinctMatches ==
    /\ [][\A b \in Branches :
            (plan[b].pc = "run" /\ plan'[b].pc = "done"
                /\ Len(plan[b].asked) < Len(Tiers(b)))
               => Cardinality(DistinctMatches(b, plan[b].hits)) >= plan[b].n]_vars
    /\ [](\A b \in Branches :
            (plan[b].pc = "done" /\ Len(plan[b].result) < plan[b].n)
               => Len(plan[b].asked) = Len(Tiers(b)))


\* C25: at each tier the planner asks search_web for twice the remaining
\* need, 2 x (cap minus the number of matches accumulated from the earlier
\* tiers).
C25_RequestTwiceRemaining ==
    [][\A b \in Branches :
          Len(plan'[b].asked) = Len(plan[b].asked) + 1
             => plan'[b].asked[Len(plan'[b].asked)].max_results
                  = 2 * (plan[b].n - MatchCount(b, plan[b].hits))]_vars


\* C27: every result that the company planner holds and that
\* is_linkedin_company accepts carries a non-empty company name.
C27_CompanyPagesAreNamed ==
    \A i \in 1..Len(plan["agencies"].hits) :
        is_linkedin_company(plan["agencies"].hits[i].url)
            => plan["agencies"].hits[i].company # <<>>


(***************************************************************************)
(* search_web step by step: one step per backend of the ladder             *)
(* (services.py 173-232, app.py 378-406)                                   *)
(***************************************************************************)

\* A backend whose result is never taken.
usable_never(t) == FALSE

\* services.py 198-201, 213-216: the try block ran through and `if output:`
\* holds, so its `return output` is taken.
usable(t) == ~t.raised /\ t.out # <<>>

LadderInit ==
    /\ variant \in Variants /\ web = AllPages /\ intent = NoIntent
    /\ \E q \in SearchQueries,
          b \in (IF variant = "app" THEN {BraveOff} ELSE BraveOutcomes(web)),
          d \in DdgOutcomes(web) :
         probe = [fn |-> "search_web",
                  arg |-> [query |-> q, max_results |-> 16, brave |-> b, ddg |-> d],
                  pc |-> IF variant = "app" THEN "secondary" ELSE "primary",
                  tried |-> <<>>, done |-> FALSE, out |-> <<>>]
    /\ DedupeIdle /\ SearchIdle /\ PlanIdle /\ FanIdle /\ RunIdle /\ SessionIdle
    /\ ParseIdle

\* services.py 177-201: `if BRAVE_API_KEY:` and the first try block.
LadderPrimary ==
    /\ probe.fn = "search_web" /\ probe.pc = "primary"
    /\ probe' =
         IF probe.arg.brave.kind = "off"
         THEN [probe EXCEPT !.pc = "secondary"]
         ELSE LET bt == brave_try(probe.arg.brave)
              IN  IF usable(bt)
                  THEN [probe EXCEPT !.pc = "done", !.done = TRUE, !.out = bt.out,
                                     !.tried = Append(@, "primary")]
                  ELSE [probe EXCEPT !.pc = "secondary",
                                     !.tried = Append(@, "primary")]
    /\ UNCHANGED <<envVars, parse, session, dedupeVars, searchVars, plan, runVars, fan>>

\* services.py 204-216, app.py 379-391: the second try block.
LadderSecondary ==
    /\ probe.fn = "search_web" /\ probe.pc = "secondary"
    /\ LET dt == ddg_try(probe.arg.ddg)
       IN  probe' =
             IF usable(dt)
             THEN [probe EXCEPT !.pc = "done", !.done = TRUE, !.out = dt.out,
                                !.tried = Append(@, "secondary")]
             ELSE [probe EXCEPT !.pc = "placeholder",
                                !.tried = Append(@, "secondary")]
    /\ UNCHANGED <<envVars, parse, session, dedupeVars, searchVars, plan, runVars, fan>>

\* services.py 219-232, app.py 393-406: the search links.
LadderPlaceholder ==
    /\ probe.fn = "search_web" /\ probe.pc = "placeholder"
    /\ probe' = [probe EXCEPT !.pc = "done", !.done = TRUE,
                              !.out = placeholder(probe.arg.query),
                              !.tried = Append(@, "placeholder")]
    /\ UNCHANGED <<envVars, parse, session, dedupeVars, searchVars, plan, runVars, fan>>

LadderNext == LadderPrimary \/ LadderSecondary \/ LadderPlaceholder

SpecLadder == LadderInit /\ [][LadderNext]_vars

\* The place of a backend in the ladder.
Rung(name) == CASE name = "primary" -> 1 [] name = "secondary" -> 2 [] OTHER -> 3

\* C22: within one search_web call the backends are attempted in the order
\* primary API (only when configured), secondary backend, placeholder; a
\* later one is attempted only when every earlier one was unavailable, failed
\* or gave no usable result; the first backend with a non-empty result
\* determines the return value; no backend is attempted twice.
C22_LadderOrder ==
    probe.fn = "search_web" =>
        LET tried == probe.tried
            b == probe.arg.brave
            d == probe.arg.ddg
            has(name) == \E i \in 1..Len(tried) : tried[i] = name
        IN  /\ \A i, j \in 1..Len(tried) : i < j => Rung(tried[i]) < Rung(tried[j])
            /\ has("primary") => (variant = "backend" /\ b.kind # "off")
            /\ has("secondary") => YieldsNothing(b)
            /\ has("placeholder") => (YieldsNothing(b) /\ YieldsNothing(d))
            /\ probe.done =>
                 /\ tried # <<>>
                 /\ LET last == tried[Len(tried)]
                    IN  /\ last = "primary" =>
                              (~YieldsNothing(b) /\ probe.out = collect(b.results, <<>>).out)
                        /\ last = "secondary" =>
                              (~YieldsNothing(d) /\ probe.out = collect(d.results, <<>>).out)
                        /\ last = "placeholder" => probe.out = placeholder(probe.arg.query)
                 /\ ~YieldsNothing(b) => tried = <<"primary">>
                 /\ (YieldsNothing(b) /\ ~YieldsNothing(d)) =>
                        tried = (IF b.kind = "off" THEN <<>> ELSE <<"primary">>)
                                   \o <<"secondary">>

\* The primary API answered with records without a URL, the secondary
\* backend gave the page of people, and no placeholder was built.
C22_Witness ==
    /\ probe.fn = "search_web" /\ probe.done
    /\ probe.arg.brave = [kind |-> "ok", results |-> PageBlank]
    /\ probe.arg.ddg = [kind |-> "ok", results |-> PagePeople]
    /\ probe.tried = <<"primary", "secondary">>
    /\ Len(probe.out) = 4


(***************************************************************************)
(* dedupe_by_url as one stable pass                                        *)
(***************************************************************************)

\* The places of items whose canonical key no earlier place has.
FirstOfKey ==
    {i \in 1..Len(items) :
        \A k \in 1..(i - 1) : CanonicalKey(items[k].url) # CanonicalKey(items[i].url)}

\* C23: the output of dedupe_by_url is the input with every entry removed
\* whose canonical key an earlier entry has: for each distinct key exactly
\* the first entry with it is kept, unmodified and in the input's order.
C23_StablePass ==
    applied >= 1 =>
        /\ Len(output) = Cardinality(FirstOfKey)
        /\ \A j \in 1..Len(output) :
              output[j] = items[CHOOSE i \in FirstOfKey :
                                   Cardinality({k \in FirstOfKey : k <= i}) = j]

\* Three entries, the third with the key of the first: the first two are
\* returned in their order.
C23_Witness ==
    /\ applied >= 1
    /\ Len(items) = 3
    /\ CanonicalKey(items[1].url) = CanonicalKey(items[3].url)
    /\ items[1].url # items[3].url
    /\ CanonicalKey(items[1].url) # CanonicalKey(items[2].url)
    /\ output = <<items[1], items[2]>>


(***************************************************************************)
(* The fan-out called with two companies that resolve to the same name     *)
(***************************************************************************)

\* Two pages of one company, as a company search returns them: their URL
\* keys differ, the name taken from either URL is Acme.
AcmeHome ==
    find_agencies_absorb(<<>>, collect(<<PageCompanies[1]>>, <<>>).out)[1]

AcmeAbout ==
    find_agencies_absorb(<<>>,
        collect(<< Raw(<<"Acme", " ", "-", " ", "About">>,
                       CompanyUrl(<<"acme", "/", "about">>), "") >>, <<>>).out)[1]

BetaLabs ==
    find_agencies_absorb(<<>>, collect(<<PageCompanies[3]>>, <<>>).out)[1]

SameNameInputs ==
    { <<AcmeHome, AcmeAbout>>, <<AcmeAbout, AcmeHome>>, <<AcmeHome, BetaLabs>> }

\* A second answer to a people query, with other profiles.
PageTwo ==
    << Raw(<<"P4">>, ProfileUrl(<<"sam">>), ""), Raw(<<"P5">>, ProfileUrl(<<"ann">>), "") >>

FanoutNamesInit ==
    /\ variant \in Variants /\ web = {PagePeople, PageTwo}
    /\ intent = Intent(Icp1, Industry1, Region1, "agencies", <<>>)
    /\ agencies \in SameNameInputs
    /\ \E k \in 1..MaxPerCompany :
         fan = [IdleFan EXCEPT !.pc = "start", !.per_company = k]
    /\ pc = "idle" /\ people = <<>> /\ company_people = <<>> /\ resp = "none"
    /\ DedupeIdle /\ SearchIdle /\ PlanIdle
    /\ ParseIdle /\ SessionIdle /\ ProbeIdle

SpecFanoutNames == FanoutNamesInit /\ [][FanoutNext]_vars

\* C24: in the list find_people_at_companies returns, at most per_company
\* results are tagged with any one company name.
C24_CapPerName ==
    fan.pc = "done" =>
        \A i \in 1..Len(company_people) :
            Cardinality({j \in 1..Len(company_people) :
                            company_people[j].company = company_people[i].company})
                <= fan.per_company


\* The canonical URL of each returned result with the company it is tagged with.
TaggedKeys(list) == {<<CanonicalKey(list[i].url), list[i].company>> : i \in 1..Len(list)}

\* What the sub-searches returned, in the order of the list of companies.
RECURSIVE GotInListOrder(_)
GotInListOrder(i) ==
    IF i > Len(fan.tasks) THEN <<>> ELSE fan.tasks[i].got \o GotInListOrder(i + 1)

\* C26: what find_people_at_companies returns depends only on what each
\* sub-search returned, not on the order in which the sub-searches complete:
\* the canonical URLs and the company each is tagged with are those obtained
\* when the sub-searches complete in the order of the list.
C26_OrderIndependent ==
    fan.pc = "done" =>
        TaggedKeys(company_people) = TaggedKeys(dedupe_by_url(GotInListOrder(1)))


(***************************************************************************)
(* One request whose steps are all taken in the end                        *)
(***************************************************************************)

\* The steps of a request that call no backend: they are taken as soon as
\* the thread they belong to is scheduled.
LocalSteps ==
    \/ RunStart
    \/ \E b \in Branches : PlannerReturn(b)
    \/ RunJoin
    \/ FanoutStart
    \/ \E i \in 1..Len(fan.tasks) : FanoutTaskBegin(i)
    \/ FanoutReturn
    \/ RunFanoutDone
    \/ AppStart
    \/ AppAgenciesDone
    \/ AppPeopleStart
    \/ AppPeopleDone
    \/ Respond
    \/ RunFailed

\* A search_web call is under way: a planner is at a tier it will query, or
\* a company's sub-search has been taken up (services.py 251, 267, 280;
\* app.py 419, 436, 445).
SearchPending ==
    \/ \E b \in Branches : plan[b].pc = "run" /\ NextTier(b) # 0
    \/ /\ fan.pc = "running"
       /\ \E i \in 1..Len(fan.tasks) :
             IF variant = "backend" THEN fan.tasks[i].st = "running"
             ELSE fan.tasks[i].st = "pending"

\* A search_web call has returned or failed: its caller has moved on.
SearchEnds == plan' # plan \/ fan' # fan

\* Every thread of the two pools is scheduled, and every call of a backend
\* returns or fails in the end.
SpecRunFair ==
    /\ RunInit /\ [][RunNext]_vars
    /\ WF_vars(LocalSteps)
    /\ (<>[]SearchPending => []<><<SearchEnds>>_vars)

\* The search_web calls of the request so far.
SearchCalls ==
    Len(plan["agencies"].asked) + Len(plan["people"].asked) + Len(fan.asked)

MaxWanted == 3
MaxCards == 2

\* The turns of the while loop are counted modulo TurnCycle.
TurnCycle == 2

\* A sub-element that find_element does not find in a card.
Missing == "<missing>"

\* The cards (div.base-search-card) a results page can show: two whole
\* ones, and one without its a.app-aware-link.
JaneCard == [name |-> "Jane", headline |-> "Engineer", company |-> "Acme",
             href |-> "https://www.linkedin.com/in/jane"]
SamCard == [name |-> "Sam", headline |-> "Designer", company |-> "Beta Labs",
            href |-> "https://www.linkedin.com/in/sam"]
AdCard == [name |-> "Promoted", headline |-> "Try Premium", company |-> "LinkedIn",
           href |-> Missing]
Cards == {JaneCard, SamCard, AdCard}

\* The results pages: up to MaxCards cards, in the order of the document.
ResultPages == UNION {[1..k -> Cards] : k \in 0..MaxCards}

\* linkedin_scraper.py 172-202: find_element raises when the sub-element is
\* not there, and every exception is answered by None. The Optional[Dict]
\* is the list of no or of one dict.
extract_profile_data(element) ==
    IF Missing \in {element.name, element.headline, element.company, element.href}
    THEN <<>>
    ELSE <<[name |-> element.name, title |-> element.headline,
            company |-> element.company, url |-> element.href,
            snippet |-> element.headline \o " at " \o element.company]>>

\* linkedin_scraper.py 148-158: the for loop over the cards found; the
\* count of results is the length of profiles throughout.
RECURSIVE card_loop(_, _, _)
card_loop(elements, profiles, max_results) ==
    IF elements = <<>> \/ Len(profiles) >= max_results THEN profiles
    ELSE LET profile_data == extract_profile_data(Head(elements))
         IN  card_loop(Tail(elements),
                       profiles \o profile_data,
                       max_results)

\* What the page can show after window.scrollTo: the same cards, or further
\* cards below them.
Scrolled(page) ==
    {page} \cup {page \o more : more \in {m \in ResultPages :
                                            m # <<>> /\ Len(page) + Len(m) <= MaxCards}}

\* A call of search_profiles on a scraper that is or is not logged in.
ScraperInit ==
    /\ variant = "app" /\ web = {} /\ intent = NoIntent
    /\ \E wanted \in 0..MaxWanted, logged_in \in BOOLEAN, page \in ResultPages :
         probe = [fn |-> "search_profiles",
                  arg |-> [max_results |-> wanted, logged_in |-> logged_in],
                  pc |-> "enter", page |-> page, profiles |-> <<>>, turns |-> 0,
                  done |-> FALSE, out |-> <<>>]
    /\ DedupeIdle /\ SearchIdle /\ PlanIdle /\ FanIdle /\ RunIdle /\ SessionIdle
    /\ ParseIdle

\* linkedin_scraper.py 121-137: the login test, then driver.get, which can
\* raise (the except of 167 then returns the empty list).
ScraperEnter ==
    /\ probe.fn = "search_profiles" /\ probe.pc = "enter"
    /\ \E raised \in BOOLEAN :
         probe' = IF ~probe.arg.logged_in \/ raised
                  THEN [probe EXCEPT !.pc = "done", !.done = TRUE, !.out = <<>>]
                  ELSE [probe EXCEPT !.pc = "while"]
    /\ UNCHANGED <<envVars, parse, session, dedupeVars, searchVars, plan, runVars, fan>>

\* The outcomes of the driver in one turn of the loop: find_elements or
\* execute_script raises, or neither does.
DriverFaults == {"none", "find_elements", "execute_script"}

\* linkedin_scraper.py 141-165: one turn of `while results_count <
\* max_results`: the cards of the page are found anew, extracted from the
\* first on, and the page is scrolled when results are still wanted.
\* find_elements and execute_script can raise, which ends the call with
\* the profiles got so far (167-170).
ScraperPass(fault) ==
    /\ probe.fn = "search_profiles" /\ probe.pc = "while"
    /\ Len(probe.profiles) < probe.arg.max_results
    /\ LET got == card_loop(probe.page, probe.profiles, probe.arg.max_results)
           turns == (probe.turns + 1) % TurnCycle
       IN  \/ /\ fault = "find_elements"
              /\ probe' = [probe EXCEPT !.pc = "done", !.done = TRUE,
                                        !.turns = turns, !.out = probe.profiles]
           \/ /\ fault = "execute_script"
              /\ Len(got) < probe.arg.max_results
              /\ probe' = [probe EXCEPT !.pc = "done", !.done = TRUE,
                                        !.turns = turns,
                                        !.profiles = got, !.out = got]
           \/ /\ fault = "none"
              /\ \E page \in (IF Len(got) < probe.arg.max_results
                              THEN Scrolled(probe.page) ELSE {probe.page}) :
                   probe' = [probe EXCEPT !.turns = turns,
                                          !.profiles = got, !.page = page]
    /\ UNCHANGED <<envVars, parse, session, dedupeVars, searchVars, plan, runVars, fan>>

\* linkedin_scraper.py 141, 170: the loop test fails and profiles is returned.
ScraperReturn ==
    /\ probe.fn = "search_profiles" /\ probe.pc = "while"
    /\ Len(probe.profiles) >= probe.arg.max_results
    /\ probe' = [probe EXCEPT !.pc = "done", !.done = TRUE, !.out = probe.profiles]
    /\ UNCHANGED <<envVars, parse, session, dedupeVars, searchVars, plan, runVars, fan>>

ScraperNext ==
    \/ ScraperEnter
    \/ \E fault \in DriverFaults : ScraperPass(fault)
    \/ ScraperReturn

SpecScraper == ScraperInit /\ [][ScraperNext]_vars

\* The call is not held up: the interpreter goes on to its next statement.
\* Nothing makes the driver raise.
SpecScraperFair ==
    /\ SpecScraper
    /\ WF_vars(ScraperEnter) /\ WF_vars(ScraperPass("none")) /\ WF_vars(ScraperReturn)

\* C29: search_profiles comes to its end, and returns at most max_results
\* profiles, whatever cards the results page shows (fewer than max_results
\* that can be extracted, or none) and however often it is scrolled.
C29_TerminatesWithinCap ==
    /\ <>(probe.pc = "done")
    /\ [](probe.pc = "done" => Len(probe.out) <= probe.arg.max_results)

\* The result is never longer than max_results.
ReturnsAtMostWanted ==
    probe.pc = "done" => Len(probe.out) <= probe.arg.max_results

\* A call that returned max_results profiles though the page shows fewer
\* cards: the cards were extracted again in the next turn of the loop.
RepeatedCards ==
    /\ probe.pc = "done"
    /\ probe.arg.max_results = MaxWanted
    /\ Len(probe.out) = MaxWanted
    /\ Len(probe.page) < MaxWanted

====
